---- MODULE Spec2Model ----
(***************************************************************************)
(* A model of the IEC 61850-9-2 sampled-values to OpenPMU bridge:          *)
(*   - the sample buffer queue shared by the capture (producer) thread and *)
(*     the sender (dispatch) thread (src/src/sample_buffer.rs);            *)
(*   - the sampled-values decoder (src/src/bytes.rs, ber.rs, lib.rs);      *)
(*   - the capture loop (src/src/main.rs).                                 *)
(* Floating point sample values are modelled as integers.                  *)
(***************************************************************************)
EXTENDS Integers, Sequences, FiniteSets, TLC

VARIABLES
    queue,        \* SampleBufferQueue.queue: the VecDeque<SampleBuffer>, front first
    mutex,        \* holder of SampleBufferQueue.queue's Mutex: "free" or "sender"
    done,         \* SampleBufferQueue.done (AtomicBool)
    sender_pc,    \* position of the sender thread in sender_thread_fn
    popped,       \* the buffer held by sender_thread_fn between pop and flush
    seen_head,    \* id of the head buffer whose send time the sender last read
    setter_pc,    \* position of the thread calling set_done
    emitted,      \* history: the buffers sent by flush, in order
    appended,     \* history: the buffers appended to the queue, as created
    last,         \* history: what the last insert_sample call was given and did
    inserts,      \* number of insert_sample calls made so far
    now,          \* the wall clock (SystemTime::now), in sample periods
    wake,         \* the earliest wall clock time at which the sender's sleep ends
    dec_pc,       \* position of the decoder run / capture loop
    dec_input,    \* the frame bytes last handed to parse
    dec_result,   \* the result of the last parse
    frames        \* number of frames the capture loop has received

vars == <<queue, mutex, done, sender_pc, popped, seen_head, setter_pc, emitted,
          appended, last, inserts, now, wake, dec_pc, dec_input, dec_result, frames>>

clock_vars == <<now, wake>>

queue_vars == <<queue, mutex, done, sender_pc, popped, seen_head, setter_pc,
                emitted, appended, last, inserts, now, wake>>

dec_vars == <<dec_pc, dec_input, dec_result, frames>>

(***************************************************************************)
(* Bounds of the model and constants of the program.                       *)
(***************************************************************************)
\* the number of insert_sample calls explored
MaxInserts == 3

\* sample_rate: the default of the command line, and the fuzz target's rate
Rate == 4000

\* buffer_length: sample_rate / (NOMINAL_FREQUENCY * 2)
Length == 40

NS_PER_SEC == 1000000000

\* What the capture thread hands to insert_sample: receive time (seconds,
\* nanoseconds), sample counter and the eight channel readings of the Sample, in
\* the order of the struct's fields.  A counter at or above Rate is included.
RecvSecs == {2}

SmpCnts == {0, 40, 3999, 4000}

SampleA == <<1, -2, 3, 0, -5, 6, 7, 0>>

SampleB == <<-4, 1, 0, 2, 3, -9, 1, 1>>

Stamps == {[recv_time_ns |-> 1000, sample |-> SampleA],
           [recv_time_ns |-> 500000000, sample |-> SampleB]}

Abs(x) == IF x < 0 THEN -x ELSE x

Max(a, b) == IF a >= b THEN a ELSE b

(***************************************************************************)
(* SampleTime                                                              *)
(***************************************************************************)
from_seconds_and_samples(seconds, samples, sample_rate) ==
    seconds * sample_rate + samples

subsec_samples(t, sample_rate) == t % sample_rate

add_samples(t, samples) == t + samples

(***************************************************************************)
(* SampleBufferChannel and SampleBuffer                                    *)
(***************************************************************************)
\* SampleBufferChannel::new: length zeros, max 0 (index i of the code is i + 1)
SampleBufferChannel_new(length) ==
    [buffer |-> [i \in 1..length |-> 0], max |-> 0]

SampleBufferChannel_insert_sample_last_abs(ch, index, value) ==
    [buffer |-> [ch.buffer EXCEPT ![index + 1] = value],
     max |-> Abs(value)]

SampleBufferChannel_insert_sample(ch, index, value) ==
    [buffer |-> [ch.buffer EXCEPT ![index + 1] = value],
     max |-> Max(ch.max, Abs(value))]

\* SampleBuffer::new; id is the position of the buffer in the append history
SampleBuffer_new(id, sample_rate, start_time, length) ==
    [id |-> id,
     channels |-> [c \in 1..8 |-> SampleBufferChannel_new(length)],
     sample_rate |-> sample_rate,
     start_time |-> start_time,
     length |-> length]

\* the largest integer of the model checker; it stands for every wrapped u32
\* difference, which is at least 2^32 - 2^16 and is only compared with a length
WrappedHigh == 2147483647

\* u32 subtraction as a release build computes it (wrapping)
WrappingSubU32(a, b) == IF a >= b THEN a - b ELSE WrappedHigh

SampleBuffer_index(buf, smp_cnt) ==
    WrappingSubU32(smp_cnt, subsec_samples(buf.start_time, buf.sample_rate))

SampleBuffer_insert_sample_unguarded(buf, smp_cnt, sample) ==
    LET index == SampleBuffer_index(buf, smp_cnt) % buf.length
    IN  [buf EXCEPT !.channels =
            [c \in 1..8 |->
                SampleBufferChannel_insert_sample(buf.channels[c], index, sample[c])]]

SampleBuffer_insert_sample(buf, smp_cnt, sample) ==
    LET index == SampleBuffer_index(buf, smp_cnt)
    IN  IF index < buf.length
        THEN [buf EXCEPT !.channels =
                [c \in 1..8 |->
                    SampleBufferChannel_insert_sample(buf.channels[c], index, sample[c])]]
        ELSE buf

is_sample_within_timespan_no_lower_bound(buf, timestamp) ==
    timestamp < add_samples(buf.start_time, buf.length)

is_sample_within_timespan(buf, timestamp) ==
    /\ timestamp >= buf.start_time
    /\ timestamp < add_samples(buf.start_time, buf.length)

is_sample_after_timespan_from_start(buf, timestamp) ==
    timestamp >= buf.start_time

is_sample_after_timespan_strict(buf, timestamp) ==
    timestamp > add_samples(buf.start_time, buf.length)

is_sample_after_timespan(buf, timestamp) ==
    timestamp >= add_samples(buf.start_time, buf.length)

\* SEND_DELAY = 0.005 seconds, in milliseconds
SEND_DELAY_MS == 5

get_send_time_of_start(buf) ==
    buf.start_time + (SEND_DELAY_MS * buf.sample_rate) \div 1000

\* SampleBuffer::get_send_time, in sample periods rather than seconds: the end
\* of the buffer's timespan plus SEND_DELAY.  The f64 rounding of the seconds is
\* below the grain of the clock of the model.
get_send_time(buf) ==
    add_samples(buf.start_time, buf.length) + (SEND_DELAY_MS * buf.sample_rate) \div 1000

(***************************************************************************)
(* SampleBufferQueue::insert_sample                                        *)
(***************************************************************************)
\* ns_per_sample = NS_PER_SEC / sample_rate, a whole number for the rates used
ns_per_sample(sample_rate) == NS_PER_SEC \div sample_rate

\* ns_offset >= recv_time_ns, where ns_offset = smp_cnt * ns_per_sample: the
\* product is compared through a division, which keeps it within the integers
\* of the model checker for every 16-bit smp_cnt
ns_offset_reaches(smp_cnt, sample_rate, recv_time_ns) ==
    smp_cnt >= (recv_time_ns + ns_per_sample(sample_rate) - 1)
                   \div ns_per_sample(sample_rate)

effective_second_strict(recv_time_s, recv_time_ns, smp_cnt, sample_rate) ==
    IF smp_cnt > recv_time_ns \div ns_per_sample(sample_rate)
    THEN recv_time_s - 1
    ELSE recv_time_s

\* recv_time_s after the correction of lines 302-304
effective_second(recv_time_s, recv_time_ns, smp_cnt, sample_rate) ==
    IF ns_offset_reaches(smp_cnt, sample_rate, recv_time_ns)
    THEN recv_time_s - 1
    ELSE recv_time_s

sample_timestamp(recv_time_s, recv_time_ns, smp_cnt, sample_rate) ==
    from_seconds_and_samples(
        effective_second(recv_time_s, recv_time_ns, smp_cnt, sample_rate),
        smp_cnt, sample_rate)

new_buffer_start_unaligned(recv_time_s, recv_time_ns, smp_cnt, sample_rate, buffer_length) ==
    from_seconds_and_samples(
        effective_second(recv_time_s, recv_time_ns, smp_cnt, sample_rate),
        smp_cnt, sample_rate)

\* the start_time given to a new buffer (lines 316-320)
new_buffer_start(recv_time_s, recv_time_ns, smp_cnt, sample_rate, buffer_length) ==
    from_seconds_and_samples(
        effective_second(recv_time_s, recv_time_ns, smp_cnt, sample_rate),
        (smp_cnt \div buffer_length) * buffer_length, sample_rate)

appends_new_buffer_on_empty_only(q, timestamp) == q = <<>>

\* queue.back().is_none_or(|buffer| buffer.is_sample_after_timespan(timestamp))
appends_new_buffer(q, timestamp) ==
    \/ q = <<>>
    \/ is_sample_after_timespan(q[Len(q)], timestamp)

find_buffer_behind_head(q, timestamp) ==
    LET hits == {i \in 2..Len(q) : is_sample_within_timespan(q[i], timestamp)}
    IN  IF hits = {} THEN 0 ELSE CHOOSE i \in hits : \A j \in hits : j <= i

\* queue.iter_mut().rev().find(|buffer| buffer.is_sample_within_timespan(timestamp)):
\* the position of the newest buffer containing timestamp, 0 when there is none
find_buffer(q, timestamp) ==
    LET hits == {i \in 1..Len(q) : is_sample_within_timespan(q[i], timestamp)}
    IN  IF hits = {} THEN 0 ELSE CHOOSE i \in hits : \A j \in hits : j <= i

insert_sample_push_front(q, id, recv_time_s, recv_time_ns, sample_rate, buffer_length, smp_cnt, sample) ==
    LET timestamp == sample_timestamp(recv_time_s, recv_time_ns, smp_cnt, sample_rate)
        new_buffer == SampleBuffer_new(id, sample_rate,
                          new_buffer_start(recv_time_s, recv_time_ns, smp_cnt,
                                           sample_rate, buffer_length),
                          buffer_length)
        j == find_buffer(q, timestamp)
    IN  IF appends_new_buffer(q, timestamp)
        THEN [queue |-> <<SampleBuffer_insert_sample(new_buffer, smp_cnt, sample)>> \o q,
              notify |-> TRUE, branch |-> "append"]
        ELSE IF j = 0
        THEN [queue |-> q, notify |-> FALSE, branch |-> "drop"]
        ELSE [queue |-> [q EXCEPT ![j] = SampleBuffer_insert_sample(q[j], smp_cnt, sample)],
              notify |-> FALSE, branch |-> "inplace"]

\* The body of insert_sample under the queue lock: the new queue, whether the
\* condition variable was notified, and the branch taken.
insert_sample(q, id, recv_time_s, recv_time_ns, sample_rate, buffer_length, smp_cnt, sample) ==
    LET timestamp == sample_timestamp(recv_time_s, recv_time_ns, smp_cnt, sample_rate)
    IN  IF appends_new_buffer(q, timestamp)
        THEN LET new_buffer ==
                    SampleBuffer_new(id, sample_rate,
                        new_buffer_start(recv_time_s, recv_time_ns, smp_cnt,
                                         sample_rate, buffer_length),
                        buffer_length)
             IN  [queue |-> Append(q, SampleBuffer_insert_sample(new_buffer, smp_cnt, sample)),
                  notify |-> TRUE,
                  branch |-> "append"]
        ELSE LET j == find_buffer(q, timestamp)
             IN  IF j = 0
                 THEN [queue |-> q, notify |-> FALSE, branch |-> "drop"]
                 ELSE [queue |-> [q EXCEPT ![j] =
                                    SampleBuffer_insert_sample(q[j], smp_cnt, sample)],
                       notify |-> FALSE,
                       branch |-> "inplace"]

notify_one_lost(pc) == pc

\* Condvar::notify_one: a sender parked in wait_while is woken and has to take
\* the lock again; a notification with no parked thread is lost
notify_one(pc) == IF pc = "parked" THEN "lock" ELSE pc

(***************************************************************************)
(* The capture thread calls insert_sample: timestamp computation, lock,    *)
(* body, unlock.  The locals are private, so the call is one step taken    *)
(* when the mutex is free.                                                 *)
(***************************************************************************)
InsertSample(recv_time_s, recv_time_ns, smp_cnt, sample) ==
    /\ inserts < MaxInserts
    /\ mutex = "free"
    /\ LET r == insert_sample(queue, Len(appended) + 1, recv_time_s, recv_time_ns,
                              Rate, Length, smp_cnt, sample)
       IN  /\ queue' = r.queue
           /\ sender_pc' = IF r.notify THEN notify_one(sender_pc) ELSE sender_pc
           /\ appended' = IF r.branch = "append"
                           THEN Append(appended,
                                       [id |-> r.queue[Len(r.queue)].id,
                                        start_time |-> r.queue[Len(r.queue)].start_time])
                           ELSE appended
           /\ last' = [recv_time_s |-> recv_time_s, recv_time_ns |-> recv_time_ns,
                       smp_cnt |-> smp_cnt,
                       timestamp |-> sample_timestamp(recv_time_s, recv_time_ns,
                                                      smp_cnt, Rate),
                       sample |-> sample, branch |-> r.branch, notify |-> r.notify]
    /\ inserts' = inserts + 1
    /\ UNCHANGED <<mutex, done, popped, seen_head, setter_pc, emitted>>
    /\ UNCHANGED dec_vars
    /\ UNCHANGED clock_vars

Insert ==
    \E recv_time_s \in RecvSecs, stamp \in Stamps, smp_cnt \in SmpCnts :
        InsertSample(recv_time_s, stamp.recv_time_ns, smp_cnt, stamp.sample)

(***************************************************************************)
(* The sender thread: sender_thread_fn, wait_for_sample_buffer and         *)
(* pop_sample_buffer.                                                      *)
(*   "lock"       about to take the queue lock in wait_for_sample_buffer   *)
(*   "pred"       holds the lock, about to evaluate wait_while's predicate *)
(*   "park"       holds the lock, predicate was true, about to wait        *)
(*   "parked"     blocked on the condition variable, lock released         *)
(*   "check_done" holds the lock, predicate was false                      *)
(*   "sleep"      in thread::sleep, lock released                          *)
(*   "pop"        about to call pop_sample_buffer                          *)
(*   "flush"      holds the popped buffer, about to render and send it     *)
(*   "exited"     left the loop;  "panicked"  an unwrap failed             *)
(***************************************************************************)
SenderLock ==
    /\ sender_pc = "lock"
    /\ mutex = "free"
    /\ mutex' = "sender"
    /\ sender_pc' = "pred"
    /\ UNCHANGED <<queue, done, popped, seen_head, setter_pc, emitted, appended,
                   last, inserts>>
    /\ UNCHANGED dec_vars
    /\ UNCHANGED clock_vars

wait_predicate_never(q, d) == FALSE

\* |queue| queue.is_empty() && !self.done.load(Ordering::SeqCst)
wait_predicate(q, d) == q = <<>> /\ ~d

SenderPredicate ==
    /\ sender_pc = "pred"
    /\ sender_pc' = IF wait_predicate(queue, done) THEN "park" ELSE "check_done"
    /\ UNCHANGED <<queue, mutex, done, popped, seen_head, setter_pc, emitted,
                   appended, last, inserts>>
    /\ UNCHANGED dec_vars
    /\ UNCHANGED clock_vars

\* Condvar::wait: unlock the mutex and block, atomically
SenderPark ==
    /\ sender_pc = "park"
    /\ mutex' = "free"
    /\ sender_pc' = "parked"
    /\ UNCHANGED <<queue, done, popped, seen_head, setter_pc, emitted, appended,
                   last, inserts>>
    /\ UNCHANGED dec_vars
    /\ UNCHANGED clock_vars

\* a wake-up nobody asked for, which Condvar::wait allows
SenderSpuriousWake ==
    /\ sender_pc = "parked"
    /\ sender_pc' = "lock"
    /\ UNCHANGED <<queue, mutex, done, popped, seen_head, setter_pc, emitted,
                   appended, last, inserts>>
    /\ UNCHANGED dec_vars
    /\ UNCHANGED clock_vars

SenderWaitReturns_holding(sleep_time_positive) ==
    /\ sender_pc = "check_done"
    /\ mutex' = IF ~done /\ queue # <<>> /\ sleep_time_positive THEN mutex ELSE "free"
    /\ IF done
       THEN sender_pc' = "exited" /\ seen_head' = seen_head
       ELSE IF queue = <<>>
            THEN sender_pc' = "panicked" /\ seen_head' = seen_head
            ELSE /\ seen_head' = queue[1].id
                 /\ sender_pc' = IF sleep_time_positive THEN "sleep" ELSE "pop"
    /\ UNCHANGED <<queue, done, popped, setter_pc, emitted, appended, last, inserts>>
    /\ UNCHANGED dec_vars

SenderWaitReturns_draining(sleep_time_positive) ==
    /\ sender_pc = "check_done"
    /\ mutex' = "free"
    /\ IF done /\ queue = <<>>
       THEN sender_pc' = "exited" /\ seen_head' = seen_head
       ELSE IF queue = <<>>
            THEN sender_pc' = "panicked" /\ seen_head' = seen_head
            ELSE /\ seen_head' = queue[1].id
                 /\ sender_pc' = IF sleep_time_positive THEN "sleep" ELSE "pop"
    /\ UNCHANGED <<queue, done, popped, setter_pc, emitted, appended, last, inserts>>
    /\ UNCHANGED dec_vars

\* lines 346-353: None when done, else the head's send time minus now; the lock
\* is released on return.  sleep_time_positive is the test of line 369 on the
\* value returned.
SenderWaitReturns(sleep_time_positive) ==
    /\ sender_pc = "check_done"
    /\ mutex' = "free"
    /\ IF done
       THEN sender_pc' = "exited" /\ seen_head' = seen_head
       ELSE IF queue = <<>>
            THEN sender_pc' = "panicked" /\ seen_head' = seen_head
            ELSE /\ seen_head' = queue[1].id
                 /\ sender_pc' = IF sleep_time_positive THEN "sleep" ELSE "pop"
    /\ UNCHANGED <<queue, done, popped, setter_pc, emitted, appended, last, inserts>>
    /\ UNCHANGED dec_vars

\* The clock is free: the sleep time is positive or not.
SenderCheckDone ==
    /\ \E sleep_time_positive \in BOOLEAN : SenderWaitReturns(sleep_time_positive)
    /\ UNCHANGED clock_vars

SenderSleep ==
    /\ sender_pc = "sleep"
    /\ sender_pc' = "pop"
    /\ UNCHANGED <<queue, mutex, done, popped, seen_head, setter_pc, emitted,
                   appended, last, inserts>>
    /\ UNCHANGED dec_vars
    /\ UNCHANGED clock_vars

pop_back(q) == [buffer |-> q[Len(q)], queue |-> SubSeq(q, 1, Len(q) - 1)]

\* queue.pop_front(): the buffer taken and the queue left
pop_front(q) == [buffer |-> Head(q), queue |-> Tail(q)]

\* pop_sample_buffer: lock, pop_front().unwrap(), unlock
SenderPop ==
    /\ sender_pc = "pop"
    /\ mutex = "free"
    /\ IF queue = <<>>
       THEN sender_pc' = "panicked" /\ UNCHANGED <<queue, popped>>
       ELSE /\ popped' = <<pop_front(queue).buffer>>
            /\ queue' = pop_front(queue).queue
            /\ sender_pc' = "flush"
    /\ UNCHANGED <<mutex, done, seen_head, setter_pc, emitted, appended, last, inserts>>
    /\ UNCHANGED dec_vars
    /\ UNCHANGED clock_vars

SenderFlush_failure_ignored ==
    /\ sender_pc = "flush"
    /\ \E sent \in BOOLEAN :
          emitted' = IF sent THEN Append(emitted, popped[1]) ELSE emitted
    /\ sender_pc' = "lock"
    /\ popped' = <<>>
    /\ UNCHANGED <<queue, mutex, done, seen_head, setter_pc, appended, last, inserts>>
    /\ UNCHANGED dec_vars
    /\ UNCHANGED clock_vars

\* buffer.flush(&out_socket, dest).unwrap(): the datagram is sent, or send_to
\* fails and the unwrap panics
SenderFlush ==
    /\ sender_pc = "flush"
    /\ \E sent \in BOOLEAN :
          IF sent
          THEN emitted' = Append(emitted, popped[1]) /\ sender_pc' = "lock"
          ELSE emitted' = emitted /\ sender_pc' = "panicked"
    /\ popped' = <<>>
    /\ UNCHANGED <<queue, mutex, done, seen_head, setter_pc, appended, last, inserts>>
    /\ UNCHANGED dec_vars
    /\ UNCHANGED clock_vars

Sender ==
    \/ SenderLock
    \/ SenderPredicate
    \/ SenderPark
    \/ SenderCheckDone
    \/ SenderSleep
    \/ SenderPop
    \/ SenderFlush

(***************************************************************************)
(* set_done: store the flag, then notify, without the queue lock.          *)
(***************************************************************************)
SetDoneStore ==
    /\ setter_pc = "idle"
    /\ done' = TRUE
    /\ setter_pc' = "notify"
    /\ UNCHANGED <<queue, mutex, sender_pc, popped, seen_head, emitted, appended,
                   last, inserts>>
    /\ UNCHANGED dec_vars
    /\ UNCHANGED clock_vars

SetDoneNotify ==
    /\ setter_pc = "notify"
    /\ sender_pc' = notify_one(sender_pc)
    /\ setter_pc' = "returned"
    /\ UNCHANGED <<queue, mutex, done, popped, seen_head, emitted, appended,
                   last, inserts>>
    /\ UNCHANGED dec_vars
    /\ UNCHANGED clock_vars

(***************************************************************************)
(* The decoder.  A BytesReader is the sequence of bytes it has left.  Every *)
(* function returns a record: kind "ok" with the value and the reader left, *)
(* kind "err" with the DecodeError, or kind "panic" where the code would    *)
(* panic (a failed unwrap, an arithmetic overflow, a slice out of bounds).  *)
(***************************************************************************)
Ok(v, r) == [kind |-> "ok", err |-> "", val |-> v, rest |-> r]

Err(e) == [kind |-> "err", err |-> e, val |-> <<>>, rest |-> <<>>]

Panic(what) == [kind |-> "panic", err |-> what, val |-> <<>>, rest |-> <<>>]

\* the ? operator and and_then: a failure of the first step is the result
IsOk(x) == x.kind = "ok"

(***************************************************************************)
(* Calendar dates (SampleTime::to_date_time, sample_buffer.rs)             *)
(***************************************************************************)
\* is_gregorian_leap_year(year)
is_gregorian_leap_year(year) ==
    year % 4 = 0 /\ (year % 100 # 0 \/ year % 400 = 0)

\* fixed_from_gregorian(year, month, day) for year >= 1 and month >= 1, where
\* no subtraction of it goes below zero
fixed_from_gregorian(year, month, day) ==
    365 * (year - 1) + (year - 1) \div 4 - (year - 1) \div 100 + (year - 1) \div 400
        + (367 * month - 362) \div 12 + day
        - (IF month <= 2 THEN 0 ELSE IF is_gregorian_leap_year(year) THEN 1 ELSE 2)

\* the year of lines 75-83 for the day number `date`
year_from_fixed(date) ==
    LET d_0 == date - 1
        n_400 == d_0 \div 146097
        d_1 == d_0 % 146097
        n_100 == d_1 \div 36524
        d_2 == d_1 % 36524
        n_4 == d_2 \div 1461
        d_3 == d_2 % 1461
        n_1 == d_3 \div 365
    IN  400 * n_400 + 100 * n_100 + 4 * n_4 + n_1
            + (IF n_100 = 4 \/ n_4 = 4 THEN 0 ELSE 1)

\* the correction of lines 86-92
date_correction(date, year) ==
    IF date < fixed_from_gregorian(year, 3, 1) THEN 0
    ELSE IF is_gregorian_leap_year(year) THEN 1 ELSE 2

\* a u64 subtraction that went below zero: a panic in a build with overflow
\* checks, wrapped values otherwise, of which the day is not followed up
date_overflow(overflow_checks, year, month) ==
    IF overflow_checks THEN Panic("attempt to subtract with overflow")
    ELSE [kind |-> "wrapped", year |-> year, month |-> month]

\* line 94 when prior_days has wrapped to 2^64 - missing: 12 * (prior_days +
\* correction) + 373 wraps to 373 - 12 * (missing - correction), which is not
\* followed up (-1) when it wraps again
wrapped_month(missing, correction) ==
    IF 373 - 12 * (missing - correction) >= 0
    THEN (373 - 12 * (missing - correction)) \div 367
    ELSE -1

\* lines 94-95 with the year and the days before `date` in it
month_and_day(overflow_checks, date, year, prior_days) ==
    LET month == (12 * (prior_days + date_correction(date, year)) + 373) \div 367
        first == fixed_from_gregorian(year, month, 1)
    IN  IF date < first THEN date_overflow(overflow_checks, year, month)
        ELSE [kind |-> "ok", year |-> year, month |-> month, day |-> date - first + 1]

\* the year, month and day of to_date_time, lines 73-95; days is
\* self.0 / (86400 * sample_rate)
to_date(overflow_checks, days) ==
    LET date == days + fixed_from_gregorian(1970, 1, 1)
        year == year_from_fixed(date)
        first == fixed_from_gregorian(year, 1, 1)
    IN  IF date < first
        THEN date_overflow(overflow_checks, year,
                           wrapped_month(first - date, date_correction(date, year)))
        ELSE month_and_day(overflow_checks, date, year, date - first)

(***************************************************************************)
(* SampleBuffer::flush: the payload of a channel (build_channel), before   *)
(* Base64.  The values of the model are whole numbers of at most a few     *)
(* hundred, for which value / max * 32767.0 in f32 truncates to the same   *)
(* integer as the exact quotient.                                          *)
(***************************************************************************)
\* a / b truncated toward zero, for b > 0
trunc_div(a, b) == IF a >= 0 THEN a \div b ELSE -((-a) \div b)

\* x as i16: the cast saturates
as_i16(x) == IF x > 32767 THEN 32767 ELSE IF x < -32768 THEN -32768 ELSE x

\* the conversion with the factor 32768.0
converted_32768(value, max) == as_i16(trunc_div(value * 32768, max))

\* (value / channel.max * 32767.0) as i16
converted(value, max) == as_i16(trunc_div(value * 32767, max))

\* converted.to_be_bytes()
i16_to_be_bytes(x) ==
    LET u == IF x < 0 THEN x + 65536 ELSE x IN <<u \div 256, u % 256>>

\* channel_bytes_buf: zeros when max == 0.0, else two bytes for every value
channel_bytes_buf(channel) ==
    IF channel.max = 0 THEN [i \in 1..(2 * Len(channel.buffer)) |-> 0]
    ELSE [i \in 1..(2 * Len(channel.buffer)) |->
             i16_to_be_bytes(converted(channel.buffer[(i + 1) \div 2], channel.max))
                 [2 - (i % 2)]]

\* the channels flush writes, in its order: channels[4], [5], [6], [0], [1], [2]
FlushChannels == <<5, 6, 7, 1, 2, 3>>

\* the six payloads of the datagram of `buffer`
flush_payloads(buffer) ==
    [k \in 1..6 |-> channel_bytes_buf(buffer.channels[FlushChannels[k]])]

(***************************************************************************)
(* BytesReader (bytes.rs)                                                  *)
(***************************************************************************)
peek_bytes(r, length) ==
    IF length <= Len(r) THEN Ok(SubSeq(r, 1, length), r) ELSE Err("EndOfBuffer")

read_bytes(r, length) ==
    IF length <= Len(r)
    THEN Ok(SubSeq(r, 1, length), SubSeq(r, length + 1, Len(r)))
    ELSE Err("EndOfBuffer")

peek_sub_reader(r, length) == peek_bytes(r, length)

take_sub_reader(r, length) == read_bytes(r, length)

\* limit taking what there is when length is beyond the end
limit_clamped(r, length) ==
    IF length <= Len(r) THEN Ok(<<>>, SubSeq(r, 1, length)) ELSE Ok(<<>>, r)

limit(r, length) ==
    IF length <= Len(r) THEN Ok(<<>>, SubSeq(r, 1, length)) ELSE Err("EndOfBuffer")

skip(r, length) ==
    IF length <= Len(r) THEN Ok(<<>>, SubSeq(r, length + 1, Len(r))) ELSE Err("EndOfBuffer")

read_u8(r) ==
    IF r # <<>> THEN Ok(r[1], Tail(r)) ELSE Err("EndOfBuffer")

read_u16_be(r) ==
    LET a == read_bytes(r, 2)
    IN  IF IsOk(a) THEN Ok(a.val[1] * 256 + a.val[2], a.rest) ELSE a

is_empty(r) == r = <<>>

\* self.bytes after a call: every function assigns self.bytes after the ? that
\* returns the error, so a failed call leaves it as it was
self_bytes(r, result) == IF IsOk(result) THEN result.rest ELSE r

(***************************************************************************)
(* BER (ber.rs).  A u32 tag number is the pair <<high 16 bits, low 16      *)
(* bits>>; a usize length is its eight bytes, most significant first.      *)
(***************************************************************************)
U32(n) == <<n \div 65536, n % 65536>>

\* num <<= 7 on a u32: the bits shifted out are lost
shl7(num) == <<(num[1] * 128 + num[2] \div 512) % 65536, (num[2] % 512) * 128>>

\* num |= x for x < 128, on a num whose low seven bits are zero
or7(num, x) == <<num[1], num[2] + x>>

\* num.leading_zeros() < 7
leading_zeros_below_7(num) == num[1] >= 512

Tag(class, n) == [class |-> class, num |-> U32(n)]

tag_class(first_byte) ==
    CASE first_byte \div 64 = 0 -> "Universal"
      [] first_byte \div 64 = 1 -> "Application"
      [] first_byte \div 64 = 2 -> "ContextSpecific"
      [] OTHER -> "Private"

\* identifier_encoding testing bit 4 instead of bit 5
identifier_encoding_bit_4(first_byte) ==
    IF (first_byte \div 16) % 2 = 0 THEN "Primitive" ELSE "Constructed"

identifier_encoding(first_byte) ==
    IF (first_byte \div 32) % 2 = 0 THEN "Primitive" ELSE "Constructed"

\* the loop of lines 63-76
RECURSIVE read_tag_number(_, _)
\* the loop without the test of lines 73-75: the high bits are shifted out
read_tag_number_wrapping(r, num) ==
    LET b == read_u8(r)
    IN  IF ~IsOk(b) THEN b
        ELSE LET n == or7(shl7(num), b.val % 128)
             IN  IF b.val < 128 THEN Ok(n, b.rest)
                 ELSE read_tag_number(b.rest, n)

read_tag_number(r, num) ==
    LET b == read_u8(r)
    IN  IF ~IsOk(b) THEN b
        ELSE LET n == or7(shl7(num), b.val % 128)
             IN  IF b.val < 128 THEN Ok(n, b.rest)
                 ELSE IF leading_zeros_below_7(n) THEN Err("TagOutOfRange")
                 ELSE read_tag_number(b.rest, n)

read_identifier(r) ==
    LET f == read_u8(r)
    IN  IF ~IsOk(f) THEN f
        ELSE LET num == IF f.val % 32 = 31
                        THEN read_tag_number(f.rest, U32(0))
                        ELSE Ok(U32(f.val % 32), f.rest)
             IN  IF ~IsOk(num) THEN num
                 ELSE Ok([tag |-> [class |-> tag_class(f.val), num |-> num.val],
                          encoding |-> identifier_encoding(f.val)],
                         num.rest)

\* the match of lines 95-99 on the identifier read
required_identifier(id, tag) ==
    IF ~IsOk(id) THEN id
    ELSE IF id.val.tag = tag THEN Ok(id.val.encoding, id.rest)
    ELSE Err("UnexpectedTag")

read_required_identifier(r, tag) == required_identifier(read_identifier(r), tag)

\* the match with read_identifier run on reader itself instead of the clone:
\* a tag that is not the one looked for is consumed
optional_identifier_consuming(id, r, tag) ==
    IF ~IsOk(id) THEN id
    ELSE IF id.val.tag = tag THEN Ok(<<id.val.encoding>>, id.rest)
    ELSE Ok(<<>>, id.rest)

\* the match of lines 108-114 on the identifier peeked at: a tag that is not
\* the one looked for leaves the reader r where it was
optional_identifier(id, r, tag) ==
    IF ~IsOk(id) THEN id
    ELSE IF id.val.tag = tag THEN Ok(<<id.val.encoding>>, id.rest)
    ELSE Ok(<<>>, r)

\* the value is <<encoding>> for Some(encoding) and <<>> for None
read_optional_identifier(r, tag) ==
    IF is_empty(r) THEN Ok(<<>>, r)
    ELSE optional_identifier(read_identifier(r), r, tag)

\* *reader after read_optional_identifier: the reader of the result when it
\* is Ok; when line 108 returns the error only peek_reader, a clone, has moved
read_optional_identifier_reader(r, tag) ==
    LET result == read_optional_identifier(r, tag)
    IN  IF IsOk(result) THEN result.rest ELSE r

USizeZero == <<0, 0, 0, 0, 0, 0, 0, 0>>

\* a usize as a number; a length of 2^31 - 1 or more, which no input has, is
\* held at 2^31 - 1
usize_value(d) ==
    IF d[1] = 0 /\ d[2] = 0 /\ d[3] = 0 /\ d[4] = 0 /\ d[5] < 128
    THEN ((d[5] * 256 + d[6]) * 256 + d[7]) * 256 + d[8]
    ELSE WrappedHigh

\* the loop of lines 131-139: n length bytes are still to be read
RECURSIVE read_length_bytes(_, _, _)
\* the loop without the test of lines 133-135: the top byte is shifted out
read_length_bytes_wrapping(r, length, n) ==
    IF n = 0 THEN Ok(length, r)
    ELSE LET b == read_u8(r)
         IN  IF ~IsOk(b) THEN b
             ELSE read_length_bytes(b.rest, Tail(length) \o <<b.val>>, n - 1)

read_length_bytes(r, length, n) ==
    IF n = 0 THEN Ok(length, r)
    ELSE IF length[1] # 0 THEN Err("LengthOutOfRange")
    ELSE LET b == read_u8(r)
         IN  IF ~IsOk(b) THEN b
             ELSE read_length_bytes(b.rest, Tail(length) \o <<b.val>>, n - 1)

\* read_length; the value is the usize as eight bytes
read_length_usize(r) ==
    LET b == read_u8(r)
    IN  IF ~IsOk(b) THEN b
        ELSE IF b.val < 128 THEN Ok(SubSeq(USizeZero, 1, 7) \o <<b.val>>, b.rest)
        ELSE IF b.val = 128 THEN Err("IndefiniteLength")
        ELSE IF b.val = 255 THEN Err("ReservedLength")
        ELSE read_length_bytes(b.rest, USizeZero, b.val % 128)

\* the usize read, as a number
length_value(l) == IF IsOk(l) THEN Ok(usize_value(l.val), l.rest) ELSE l

read_length(r) == length_value(read_length_usize(r))

\* read_length(reader)?, after the steps before it succeeded
then_read_length(prev) == IF IsOk(prev) THEN read_length(prev.rest) ELSE prev

\* reader.read_bytes(length) with the length l just read
then_read_bytes(l) == IF IsOk(l) THEN read_bytes(l.rest, l.val) ELSE l

\* reader.take_sub_reader(length) with the length l just read
then_take_sub_reader(l) == IF IsOk(l) THEN take_sub_reader(l.rest, l.val) ELSE l

\* reader.limit(length) with the length l just read
then_limit(l) == IF IsOk(l) THEN limit(l.rest, l.val) ELSE l

\* integer_as_u16 without the arms of lines 158-159: overlong content is read
integer_as_u16_overlong(c) ==
    IF ~IsOk(c) THEN c
    ELSE LET b == c.val
         IN  IF b = <<>> THEN Err("InvalidIntegerEncoding")
             ELSE IF b[1] >= 128 THEN Err("IntegerOutOfRange")
             ELSE IF Len(b) = 1 THEN Ok(b[1], c.rest)
             ELSE IF Len(b) = 2 THEN Ok(b[1] * 256 + b[2], c.rest)
             ELSE IF Len(b) = 3 /\ b[1] = 0 THEN Ok(b[2] * 256 + b[3], c.rest)
             ELSE Err("IntegerOutOfRange")

\* lines 153-176 on the content bytes c
integer_as_u16(c) ==
    IF ~IsOk(c) THEN c
    ELSE LET b == c.val
         IN  IF b = <<>> THEN Err("InvalidIntegerEncoding")
             ELSE IF Len(b) >= 2 /\ b[1] = 0 /\ b[2] < 128
                  THEN Err("InvalidIntegerEncoding")
             ELSE IF Len(b) >= 2 /\ b[1] = 255 /\ b[2] >= 128
                  THEN Err("InvalidIntegerEncoding")
             ELSE IF b[1] >= 128 THEN Err("IntegerOutOfRange")
             ELSE IF Len(b) = 1 THEN Ok(b[1], c.rest)
             ELSE IF Len(b) = 2 THEN Ok(b[1] * 256 + b[2], c.rest)
             ELSE IF Len(b) = 3 /\ b[1] = 0 THEN Ok(b[2] * 256 + b[3], c.rest)
             ELSE Err("IntegerOutOfRange")

read_integer_as_u16(r, encoding) ==
    IF encoding # "Primitive" THEN Err("InvalidIntegerEncoding")
    ELSE integer_as_u16(then_read_bytes(read_length(r)))

read_octet_string(r, encoding) ==
    IF encoding = "Constructed" THEN Err("ConstructedString")
    ELSE then_read_bytes(read_length(r))

\* the range taken up to 0x7F: DEL passes
visible_with_del(b) == 32 <= b /\ b <= 127

\* (0x20..=0x7E).contains(b)
visible(b) == 32 <= b /\ b <= 126

\* std::str::from_utf8(bytes) succeeds; bytes below 0x80 are always valid, and
\* any other byte is taken to make the unwrap fail
from_utf8_ok(bytes) == \A i \in 1..Len(bytes) : bytes[i] < 128

\* lines 198-205 on the content bytes c
visiblestring(c) ==
    IF ~IsOk(c) THEN c
    ELSE IF \A i \in 1..Len(c.val) : visible(c.val[i])
         THEN IF from_utf8_ok(c.val) THEN c ELSE Panic("from_utf8")
         ELSE Err("InvalidVisibleString")

read_visiblestring(r, encoding) ==
    IF encoding = "Constructed" THEN Err("ConstructedString")
    ELSE visiblestring(then_read_bytes(read_length(r)))

(***************************************************************************)
(* The sampled-values decoder (lib.rs; main.rs holds the same functions)   *)
(***************************************************************************)
\* bytes.try_into().map(T::from_be_bytes) for a T of `size` bytes; a u32 is the
\* pair of its halves and a u64 its eight bytes
from_be_bytes(b, size) ==
    IF ~IsOk(b) THEN b
    ELSE IF Len(b.val) # size THEN Err("InvalidIntegerEncoding")
    ELSE Ok(CASE size = 1 -> b.val[1]
              [] size = 2 -> b.val[1] * 256 + b.val[2]
              [] size = 4 -> <<b.val[1] * 256 + b.val[2], b.val[3] * 256 + b.val[4]>>
              [] size = 8 -> b.val,
            b.rest)

read_iec61850_int8u(r, encoding) == from_be_bytes(read_octet_string(r, encoding), 1)

read_iec61850_int16u(r, encoding) == from_be_bytes(read_octet_string(r, encoding), 2)

read_iec61850_int32u(r, encoding) == from_be_bytes(read_octet_string(r, encoding), 4)

read_iec61850_utctime(r, encoding) == from_be_bytes(read_octet_string(r, encoding), 8)

\* i32::from_be_bytes of the first four bytes of the chunk starting at byte k
i32_from_be_bytes(bytes, k) ==
    (((IF bytes[k] >= 128 THEN bytes[k] - 256 ELSE bytes[k]) * 256 + bytes[k + 1]) * 256
        + bytes[k + 2]) * 256 + bytes[k + 3]

\* lines 68-84 on the 64 bytes: the eight readings in thousandths, so that the
\* current scale 0.001 is a factor 1 and the voltage scale 0.01 a factor 10
sample_values(bytes) ==
    [c \in 1..8 |->
        i32_from_be_bytes(bytes, 8 * (c - 1) + 1) * (IF c <= 4 THEN 1 ELSE 10)]

\* the test of lines 63-66 left out: a chunk that is not there makes the
\* unwrap of values_iter.next() fail
Sample_of_unchecked(b) ==
    IF ~IsOk(b) THEN b
    ELSE IF Len(b.val) < 64 THEN Panic("values_iter.next().unwrap()")
    ELSE Ok(sample_values(b.val), b.rest)

\* lines 63-84 on the octet string b
Sample_of(b) ==
    IF ~IsOk(b) THEN b
    ELSE IF Len(b.val) # 64 THEN Err("InvalidIntegerEncoding")
    ELSE Ok(sample_values(b.val), b.rest)

Sample_read(r, encoding) == Sample_of(read_octet_string(r, encoding))

CS(n) == Tag("ContextSpecific", n)

\* read_required_identifier(reader, tag), after the steps before it succeeded
required_id(prev, tag) ==
    IF IsOk(prev) THEN read_required_identifier(prev.rest, tag) ELSE prev

\* read_optional_identifier(reader, tag)?, after the steps before it succeeded
optional_id(prev, tag) ==
    IF IsOk(prev) THEN read_optional_identifier(prev.rest, tag) ELSE prev

\* .map(...).transpose()?: a value read is Some(v), written <<v>>
some(v) == IF IsOk(v) THEN Ok(<<v.val>>, v.rest) ELSE v

\* the reader of a field's value: what(reader, encoding)
read_value(what, r, encoding) ==
    CASE what = "visiblestring" -> read_visiblestring(r, encoding)
      [] what = "int8u"         -> read_iec61850_int8u(r, encoding)
      [] what = "int16u"        -> read_iec61850_int16u(r, encoding)
      [] what = "int32u"        -> read_iec61850_int32u(r, encoding)
      [] what = "utctime"       -> read_iec61850_utctime(r, encoding)
      [] what = "sample"        -> Sample_read(r, encoding)

\* and_then(|encoding| what(reader, encoding))? on a required identifier
required_value(what, e) ==
    IF IsOk(e) THEN read_value(what, e.rest, e.val) ELSE e

\* .map(|encoding| what(reader, encoding)).transpose()? on an optional identifier
optional_value(what, o) ==
    IF ~IsOk(o) \/ o.val = <<>> THEN o
    ELSE some(read_value(what, o.rest, o.val[1]))

\* the fields read so far with the one just read
with_field(prev, x) ==
    IF IsOk(x) THEN Ok(Append(prev.val, x.val), x.rest) ELSE x

\* a required field with context tag n after the fields of prev
required_field(prev, n, what) ==
    with_field(prev, required_value(what, required_id(prev, CS(n))))

\* an optional field with context tag n after the fields of prev
optional_field(prev, n, what) ==
    with_field(prev, optional_value(what, optional_id(prev, CS(n))))

\* Ok(Asdu { .. }) of lines 145-155
Asdu(f) ==
    IF ~IsOk(f) THEN f
    ELSE Ok([svid |-> f.val[1], datset |-> f.val[2], smp_cnt |-> f.val[3],
             conf_rev |-> f.val[4], refr_tm |-> f.val[5], smp_synch |-> f.val[6],
             smp_rate |-> f.val[7], sample |-> f.val[8], smp_mod |-> f.val[9]],
            f.rest)

read_asdu(r) ==
    LET svid      == required_field(Ok(<<>>, r), 0, "visiblestring")
        datset    == optional_field(svid, 1, "visiblestring")
        smp_cnt   == required_field(datset, 2, "int16u")
        conf_rev  == required_field(smp_cnt, 3, "int32u")
        refr_tm   == optional_field(conf_rev, 4, "utctime")
        smp_synch == required_field(refr_tm, 5, "int8u")
        smp_rate  == optional_field(smp_synch, 6, "int16u")
        sample    == required_field(smp_rate, 7, "sample")
        smp_mod   == optional_field(sample, 8, "int16u")
    IN  Asdu(smp_mod)

\* a value read from a sub-reader, with the reader the sub-reader was taken from
with_rest(a, rest) == IF IsOk(a) THEN Ok(a.val, rest) ELSE a

asdu_in_whole_reader(sub) ==
    IF IsOk(sub) THEN read_asdu(sub.val \o sub.rest) ELSE sub

\* read_asdu(&mut asdu_reader) on the sub-reader taken
asdu_in(sub) == IF IsOk(sub) THEN with_rest(read_asdu(sub.val), sub.rest) ELSE sub

\* one turn of the closure of lines 179-183 on inner_reader
read_sequence_asdu(inner) ==
    asdu_in(then_take_sub_reader(then_read_length(
        read_required_identifier(inner, Tag("Universal", 16)))))

\* (0..no_asdu).map(...).collect::<Result<Vec<_>, _>>(): n ASDUs are still to be
\* read; the first failure is the result
RECURSIVE read_asdus(_, _, _)
collect(a, n, acc) ==
    IF IsOk(a) THEN read_asdus(a.rest, n - 1, Append(acc, a.val)) ELSE a

\* read_asdus stopping where inner_reader is used up: a shorter list
read_asdus_available(inner, n, acc) ==
    IF n = 0 \/ is_empty(inner) THEN Ok(acc, inner)
    ELSE collect(read_sequence_asdu(inner), n, acc)

read_asdus(inner, n, acc) ==
    IF n = 0 THEN Ok(acc, inner) ELSE collect(read_sequence_asdu(inner), n, acc)

\* the length and the bytes of the security field, when there is one
security(o) ==
    IF ~IsOk(o) THEN o
    ELSE IF o.val = <<>> THEN Ok(<<>>, o.rest)
    ELSE LET l == read_length(o.rest)
         IN  IF IsOk(l) THEN skip(l.rest, l.val) ELSE l

\* the optional security field: its identifier, then a length and that many bytes
read_security(r) == security(read_optional_identifier(r, CS(1)))

\* lines 179-184 on the sub-reader taken: no_asdu ASDUs out of inner_reader
asdus_in(inner, no_asdu) ==
    IF IsOk(inner) THEN with_rest(read_asdus(inner.val, no_asdu, <<>>), inner.rest)
    ELSE inner

\* lines 164-184, noASDU being read
savpdu(no_asdu) ==
    IF ~IsOk(no_asdu) THEN no_asdu
    ELSE IF no_asdu.val = 0 THEN Err("TagOutOfRange")
    ELSE asdus_in(then_take_sub_reader(then_read_length(
                      required_id(read_security(no_asdu.rest), CS(2)))),
                  no_asdu.val)

\* read_integer_as_u16 on the identifier read
no_asdu_of(e) == IF IsOk(e) THEN read_integer_as_u16(e.rest, e.val) ELSE e

read_savpdu(r) == savpdu(no_asdu_of(read_required_identifier(r, CS(0))))

\* read_savpdu(&mut reader) on the reader limited
then_read_savpdu(lim) == IF IsOk(lim) THEN read_savpdu(lim.rest) ELSE lim

\* Ok(Frame { appid, asdus })
Frame_of(appid, asdus) ==
    IF IsOk(asdus) THEN Ok([appid |-> appid, asdus |-> asdus.val], asdus.rest)
    ELSE asdus

\* parse_body with the reader limited to length, not length - 8
parse_body_limit_length(appid, length, r) ==
    Frame_of(appid,
             then_read_savpdu(then_limit(then_read_length(
                 required_id(limit(r, length), Tag("Application", 0))))))

\* the rest of parse once the header is read and its length is at least 8
parse_body(appid, length, r) ==
    Frame_of(appid,
             then_read_savpdu(then_limit(then_read_length(
                 required_id(limit(r, length - 8), Tag("Application", 0))))))

\* parse without the test of lines 201-203: length - 8 overflows
parse_unchecked_length(bytes) ==
    LET appid == read_u16_be(bytes)
        length == IF IsOk(appid) THEN read_u16_be(appid.rest) ELSE appid
        reserved_1 == IF IsOk(length) THEN read_u16_be(length.rest) ELSE length
        reserved_2 == IF IsOk(reserved_1) THEN read_u16_be(reserved_1.rest) ELSE reserved_1
    IN  IF ~IsOk(reserved_2) THEN reserved_2
        ELSE IF length.val < 8 THEN Panic("length - 8")
        ELSE parse_body(appid.val, length.val, reserved_2.rest)

parse(bytes) ==
    LET appid == read_u16_be(bytes)
        length == IF IsOk(appid) THEN read_u16_be(appid.rest) ELSE appid
        reserved_1 == IF IsOk(length) THEN read_u16_be(length.rest) ELSE length
        reserved_2 == IF IsOk(reserved_1) THEN read_u16_be(reserved_1.rest) ELSE reserved_1
    IN  IF ~IsOk(reserved_2) THEN reserved_2
        ELSE IF length.val < 8 THEN Err("LengthOutOfRange")
        ELSE parse_body(appid.val, length.val, reserved_2.rest)

(***************************************************************************)
(* The queue with its two threads.                                         *)
(***************************************************************************)
NoInsert == [recv_time_s |-> 0, recv_time_ns |-> 0, smp_cnt |-> 0, timestamp |-> 0,
             sample |-> <<>>, branch |-> "none", notify |-> FALSE]

QueueInit ==
    /\ queue = <<>>
    /\ mutex = "free"
    /\ done = FALSE
    /\ sender_pc = "lock"
    /\ popped = <<>>
    /\ seen_head = 0
    /\ setter_pc = "idle"
    /\ emitted = <<>>
    /\ appended = <<>>
    /\ last = NoInsert
    /\ inserts = 0
    /\ now = 0
    /\ wake = 0

DecIdle ==
    /\ dec_pc = "idle"
    /\ dec_input = <<>>
    /\ dec_result = <<>>
    /\ frames = 0

Init == QueueInit /\ DecIdle

Next ==
    \/ Insert
    \/ Sender
    \/ SenderSpuriousWake
    \/ SetDoneStore
    \/ SetDoneNotify

Spec == Init /\ [][Next]_vars

\* The sender thread keeps running while it can take a step, and a thread inside
\* set_done goes on to its notify.  Calls of insert_sample and of set_done, and
\* spurious wake-ups, may or may not come.
FairSpec == Spec /\ WF_vars(Sender) /\ WF_vars(SetDoneNotify)

(***************************************************************************)
(* The sender thread against the wall clock.  Times are counted in sample  *)
(* periods since the epoch, as SampleTime counts them.  The clock is       *)
(* monotone and advances at any moment, between any two steps of the       *)
(* threads.                                                                *)
(***************************************************************************)
ClockTicks == {7000, 8019, 8020, 8059, 8060, 8061, 8100, 12060}

Tick ==
    /\ \E t \in ClockTicks : t > now /\ now' = t
    /\ wake' = wake
    /\ UNCHANGED <<queue, mutex, done, sender_pc, popped, seen_head, setter_pc,
                   emitted, appended, last, inserts>>
    /\ UNCHANGED dec_vars

\* lines 350-351: queue.front().unwrap().get_send_time() - SystemTime::now()
sleep_time(q, t) == IF q = <<>> THEN 0 ELSE get_send_time(q[1]) - t

\* wait_for_sample_buffer returns with the clock read at now; thread::sleep is
\* entered no earlier than that, so it returns no earlier than now + sleep_time
SenderCheckDoneAt ==
    /\ SenderWaitReturns(sleep_time(queue, now) > 0)
    /\ wake' = IF sleep_time(queue, now) > 0 THEN now + sleep_time(queue, now) ELSE wake
    /\ now' = now

\* std::thread::sleep(Duration::from_secs_f64(sleep_time)) returns: the sleep
\* lasted at least the duration asked for
SenderSleepUntil ==
    /\ now >= wake
    /\ SenderSleep

ClockNext ==
    \/ Insert
    \/ Tick
    \/ SenderLock
    \/ SenderPredicate
    \/ SenderPark
    \/ SenderCheckDoneAt
    \/ SenderSleepUntil
    \/ SenderPop
    \/ SenderFlush

SpecClock == Init /\ [][ClockNext]_vars

(***************************************************************************)
(* The first insert_sample call on the empty queue, with the sample        *)
(* counter drawn from the whole range of the u16 field Asdu.smp_cnt.       *)
(***************************************************************************)
MaxSmpCnt == 65535

FirstInsert ==
    /\ queue = <<>>
    /\ appended = <<>>
    /\ \E recv_time_s \in RecvSecs, stamp \in Stamps, smp_cnt \in 0..MaxSmpCnt :
          InsertSample(recv_time_s, stamp.recv_time_ns, smp_cnt, stamp.sample)

SpecFirstInsert == Init /\ [][FirstInsert]_vars

(***************************************************************************)
(* insert_sample calls alone, the sender not running: counters at both     *)
(* ends of the first window and at the start of the second one, in two     *)
(* seconds, received early and late in the second.                         *)
(***************************************************************************)
WindowSecs == {2, 3}

WindowSmpCnts == {0, 39, 40, 3999}

InsertWindow ==
    \E recv_time_s \in WindowSecs, stamp \in Stamps, smp_cnt \in WindowSmpCnts :
        InsertSample(recv_time_s, stamp.recv_time_ns, smp_cnt, stamp.sample)

SpecWindow == Init /\ [][InsertWindow]_vars

(***************************************************************************)
(* One insert_sample call on the empty queue, with receive times on both   *)
(* sides of the time of the sample counter within the second.              *)
(***************************************************************************)
CorrectionSecs == {1, 100}

CorrectionNs == {0, 1000, 250000, 250001, 999750000, 999750001, 999999999}

CorrectionSmpCnts == 0..(Rate + 1) \cup {MaxSmpCnt}

InsertCorrection ==
    /\ queue = <<>>
    /\ appended = <<>>
    /\ \E recv_time_s \in CorrectionSecs, recv_time_ns \in CorrectionNs,
          smp_cnt \in CorrectionSmpCnts :
          InsertSample(recv_time_s, recv_time_ns, smp_cnt, SampleA)

SpecCorrection == Init /\ [][InsertCorrection]_vars

(***************************************************************************)
(* Frames handed to the decoder: well-formed frames, every prefix of one,  *)
(* and one with single bytes replaced.                                     *)
(***************************************************************************)
\* an identifier octet and the definite length of the content, then the content
TLV(id, content) ==
    (IF Len(content) < 128 THEN <<id, Len(content)>>
     ELSE IF Len(content) < 256 THEN <<id, 129, Len(content)>>
     ELSE <<id, 130, Len(content) \div 256, Len(content) % 256>>) \o content

\* a 64 byte sample: eight values of four bytes, each followed by four of quality
SampleBytes ==
    <<0, 0, 0, 1, 0, 0, 0, 0>> \o <<255, 255, 255, 254, 0, 0, 0, 0>> \o
    <<0, 0, 0, 3, 0, 0, 0, 0>> \o <<0, 0, 0, 0, 0, 0, 0, 0>> \o
    <<255, 255, 255, 251, 0, 0, 0, 0>> \o <<0, 0, 0, 6, 0, 0, 0, 0>> \o
    <<0, 0, 1, 0, 0, 0, 0, 0>> \o <<0, 0, 0, 0, 0, 0, 32, 0>>

SvId == <<116, 101, 115, 116>>

\* the fields every ASDU has
AsduPlain(smp_cnt) ==
    TLV(128, SvId) \o TLV(130, <<smp_cnt \div 256, smp_cnt % 256>>) \o
    TLV(131, <<0, 0, 0, 1>>) \o TLV(133, <<1>>) \o TLV(135, SampleBytes)

\* every optional field as well
AsduFull(smp_cnt) ==
    TLV(128, SvId) \o TLV(129, SvId) \o TLV(130, <<smp_cnt \div 256, smp_cnt % 256>>) \o
    TLV(131, <<0, 0, 0, 1>>) \o TLV(132, <<0, 0, 0, 2, 0, 0, 0, 0>>) \o TLV(133, <<1>>) \o
    TLV(134, <<15, 160>>) \o TLV(135, SampleBytes) \o TLV(136, <<0, 0>>)

\* tag [3] before tag [2]
AsduOutOfOrder(smp_cnt) ==
    TLV(128, SvId) \o TLV(131, <<0, 0, 0, 1>>) \o
    TLV(130, <<smp_cnt \div 256, smp_cnt % 256>>) \o TLV(133, <<1>>) \o
    TLV(135, SampleBytes)

\* the frame: APPID, length, two reserved words, then the savPdu
Frame(pdu) ==
    LET apdu == TLV(96, pdu)
    IN  <<64, 0, (Len(apdu) + 8) \div 256, (Len(apdu) + 8) % 256, 0, 0, 0, 0>> \o apdu

\* the content of the field with context tag t, of the size read_asdu asks for
FieldContent(t) ==
    CASE t = 0 -> SvId
      [] t = 1 -> SvId
      [] t = 2 -> <<0, 40>>
      [] t = 3 -> <<0, 0, 0, 1>>
      [] t = 4 -> <<0, 0, 0, 2, 0, 0, 0, 0>>
      [] t = 5 -> <<1>>
      [] t = 6 -> <<15, 160>>
      [] t = 7 -> SampleBytes
      [] t = 8 -> <<0, 0>>

\* an ASDU body with the fields of the context tags listed, in that order
RECURSIVE AsduOfTags(_)
AsduOfTags(tags) ==
    IF tags = <<>> THEN <<>>
    ELSE TLV(128 + Head(tags), FieldContent(Head(tags))) \o AsduOfTags(Tail(tags))

FrameOfTags(tags) == Frame(TLV(128, <<1>>) \o TLV(162, TLV(48, AsduOfTags(tags))))

\* the tags s lists, as the ascending sequence of them
RECURSIVE Ascending(_, _)
Ascending(s, t) ==
    IF t > 8 THEN <<>>
    ELSE (IF t \in s THEN <<t>> ELSE <<>>) \o Ascending(s, t + 1)

\* the tag orders read_asdu is written for: the required fields 0, 2, 3, 5, 7
\* and any of the optional ones 1, 4, 6, 8, ascending
OrderedTagSeqs == {Ascending({0, 2, 3, 5, 7} \cup o, 0) : o \in SUBSET {1, 4, 6, 8}}

StrictlyAscending(tags) == \A i \in 1..(Len(tags) - 1) : tags[i] < tags[i + 1]

\* orders that are not strictly ascending: two neighbours exchanged, or a
\* field added at the end whose tag is not above the last one
DisorderedTagSeqs ==
    {[s EXCEPT ![i] = s[i + 1], ![i + 1] = s[i]] :
        s \in OrderedTagSeqs, i \in 1..4}
    \cup {[s EXCEPT ![i] = s[i + 1], ![i + 1] = s[i]] :
        s \in {q \in OrderedTagSeqs : Len(q) >= 6}, i \in 5..5}
    \cup {[s EXCEPT ![Len(s) - 1] = s[Len(s)], ![Len(s)] = s[Len(s) - 1]] :
        s \in OrderedTagSeqs}
    \cup {Append(s, t) : s \in OrderedTagSeqs, t \in {1, 6, 7}}

TagOrderFrames == {FrameOfTags(s) : s \in OrderedTagSeqs \cup DisorderedTagSeqs}

DisorderedFrames ==
    {FrameOfTags(s) : s \in {q \in DisorderedTagSeqs : ~StrictlyAscending(q)}}

FrameOne(smp_cnt) ==
    Frame(TLV(128, <<1>>) \o TLV(162, TLV(48, AsduPlain(smp_cnt))))

FrameFull(smp_cnt) ==
    Frame(TLV(128, <<1>>) \o TLV(129, <<7, 7>>) \o TLV(162, TLV(48, AsduFull(smp_cnt))))

FrameTwo(smp_cnt_1, smp_cnt_2) ==
    Frame(TLV(128, <<2>>) \o
          TLV(162, TLV(48, AsduPlain(smp_cnt_1)) \o TLV(48, AsduPlain(smp_cnt_2))))

FrameNoAsdu == Frame(TLV(128, <<0>>) \o TLV(162, <<>>))

FrameMissingAsdu == Frame(TLV(128, <<2>>) \o TLV(162, TLV(48, AsduPlain(0))))

FrameOutOfOrder == Frame(TLV(128, <<1>>) \o TLV(162, TLV(48, AsduOutOfOrder(0))))

FrameShortLength == <<64, 0, 0, 7, 0, 0, 0, 0>> \o TLV(96, TLV(128, <<1>>))

GoodFrames == {FrameOne(0), FrameOne(40), FrameFull(3999), FrameTwo(0, 4000)}

BadFrames == {FrameNoAsdu, FrameMissingAsdu, FrameOutOfOrder, FrameShortLength}

\* the bytes of FrameOne(40) that are replaced, one at a time: the header and
\* the identifiers and lengths down to the first bytes of the sample
MutSpan == 40

MutBytes == {0, 1, 2, 7, 31, 48, 64, 96, 127, 128, 129, 130, 136, 162, 191, 255}

Prefixes(f) == {SubSeq(f, 1, n) : n \in 0..Len(f)}

Replaced(f) ==
    {[f EXCEPT ![i] = b] : i \in 1..(IF MutSpan < Len(f) THEN MutSpan ELSE Len(f)),
                           b \in MutBytes}

\* frames that announce n ASDUs and carry those with the counters cnts
MaxAsdus == 3

CountSmpCnts == {0, 40}

CountSeqs == UNION {[1..k -> CountSmpCnts] : k \in 0..MaxAsdus}

RECURSIVE AsduSeq(_)
AsduSeq(cnts) ==
    IF cnts = <<>> THEN <<>>
    ELSE TLV(48, AsduPlain(Head(cnts))) \o AsduSeq(Tail(cnts))

FrameCount(n, cnts) == Frame(TLV(128, <<n>>) \o TLV(162, AsduSeq(cnts)))

CountFrames == {FrameCount(n, cnts) : n \in 0..MaxAsdus, cnts \in CountSeqs}

\* a frame followed by bytes its length field does not cover, and a frame
\* whose length field stops short of its content
MaxTrailing == 9

Garbage == <<96, 3, 128, 1, 1, 255, 0, 48, 130, 7, 7>>

TrailingFrames ==
    {f \o SubSeq(Garbage, 1, k) : f \in {FrameOne(40), FrameFull(3999)}, k \in 1..MaxTrailing}

ShortenedFrames == {[FrameOne(40) EXCEPT ![4] = @ - k] : k \in 1..MaxTrailing}

\* Frames whose declared lengths and contents disagree.  MaxSlack bytes at most
\* follow the end an element declares, inside the element that encloses it; or
\* an element declares up to MaxSlack bytes fewer than its content takes.
MaxSlack == 10

\* a smpMod field, then the beginning of another ASDU
SlackBytes == <<136, 2, 0, 5, 48, 3, 128, 1, 1, 135, 64, 0>>

Slack(k) == SubSeq(SlackBytes, 1, k)

\* an identifier octet and a one-octet length that declares k bytes fewer than
\* the content that follows
Clipped(id, content, k) == <<id, Len(content) - k>> \o content

\* the header with the length field counting all of rest
FrameAround(rest) ==
    <<64, 0, (Len(rest) + 8) \div 256, (Len(rest) + 8) % 256, 0, 0, 0, 0>> \o rest

SlackFrames ==
    {Frame(TLV(128, <<1>>) \o TLV(162, TLV(48, AsduPlain(40)) \o Slack(k))) :
        k \in 1..MaxSlack}
    \cup {Frame(TLV(128, <<1>>) \o TLV(162, TLV(48, AsduPlain(40))) \o Slack(k)) :
        k \in 1..MaxSlack}
    \cup {FrameAround(TLV(96, TLV(128, <<1>>) \o TLV(162, TLV(48, AsduPlain(40))))
                      \o Slack(k)) : k \in 1..MaxSlack}

ClippedFrames ==
    {Frame(TLV(128, <<1>>) \o TLV(162, Clipped(48, AsduPlain(40), k))) :
        k \in 1..MaxSlack}
    \cup {Frame(TLV(128, <<1>>) \o Clipped(162, TLV(48, AsduPlain(40)), k)) :
        k \in 1..MaxSlack}
    \cup {FrameAround(Clipped(96, TLV(128, <<1>>) \o TLV(162, TLV(48, AsduPlain(40))), k)) :
        k \in 1..MaxSlack}

ParseInputs ==
    GoodFrames \cup BadFrames \cup Prefixes(FrameOne(40)) \cup Prefixes(FrameFull(3999))
        \cup Replaced(FrameOne(40))
        \cup TagOrderFrames \cup CountFrames \cup TrailingFrames \cup ShortenedFrames
        \cup SlackFrames \cup ClippedFrames

(***************************************************************************)
(* The decoder run on one frame (the fuzz target fuzz_parse).              *)
(***************************************************************************)
ParseFrame ==
    /\ dec_pc = "idle"
    /\ \E bytes \in ParseInputs :
          /\ dec_input' = bytes
          /\ dec_result' = parse(bytes)
    /\ dec_pc' = "parsed"
    /\ frames' = frames + 1
    /\ UNCHANGED queue_vars

SpecParse == Init /\ [][ParseFrame]_vars

(***************************************************************************)
(* The capture loop of main (main.rs): receive a frame, parse it, hand     *)
(* every ASDU of it to insert_sample.  One turn of the loop is one step;   *)
(* the loop is the only thread here, so the queue's mutex is free.         *)
(*   dec_pc "idle"           at the head of the loop                       *)
(*          "recv_failed"    main returned the error of recv               *)
(*          "decode_failed"  main returned the error of parse              *)
(*          "panicked"       the assert on the receive time failed         *)
(***************************************************************************)
\* the number of frames the capture loop is given
MaxFrames == 3

\* RecvInfo.timestamp_s is an i64: a time before the epoch is negative
TimestampSecs == {-1, 2}

TimestampNs == {1000, 500000000}

MainFrames == GoodFrames \cup BadFrames

\* the for loop of lines 248-251 over the ASDUs still to be inserted; st holds
\* the queue and what is recorded about it
RECURSIVE insert_asdus(_, _, _, _)
insert_asdus(st, asdus, timestamp_s, timestamp_ns) ==
    IF asdus = <<>> THEN st
    ELSE LET asdu == Head(asdus)
             r == insert_sample(st.queue, Len(st.appended) + 1, timestamp_s,
                                timestamp_ns, Rate, Length, asdu.smp_cnt, asdu.sample)
         IN  insert_asdus(
                 [queue     |-> r.queue,
                  sender_pc |-> IF r.notify THEN notify_one(st.sender_pc)
                                ELSE st.sender_pc,
                  appended  |-> IF r.branch = "append"
                                THEN Append(st.appended,
                                            [id |-> r.queue[Len(r.queue)].id,
                                             start_time |->
                                                 r.queue[Len(r.queue)].start_time])
                                ELSE st.appended,
                  last      |-> [recv_time_s |-> timestamp_s,
                                 recv_time_ns |-> timestamp_ns,
                                 smp_cnt |-> asdu.smp_cnt,
                                 timestamp |-> sample_timestamp(timestamp_s, timestamp_ns,
                                                                asdu.smp_cnt, Rate),
                                 sample |-> asdu.sample, branch |-> r.branch,
                                 notify |-> r.notify],
                  inserts   |-> st.inserts + 1],
                 Tail(asdus), timestamp_s, timestamp_ns)

\* lines 247-251 on the frame received: sv_message is the result of parse
MainLoopBody(timestamp_s, timestamp_ns, sv_message) ==
    /\ dec_result' = sv_message
    /\ IF ~IsOk(sv_message)
       THEN /\ dec_pc' = "decode_failed"
            /\ UNCHANGED <<queue, sender_pc, appended, last, inserts>>
       ELSE IF timestamp_s < 0
       THEN /\ dec_pc' = "panicked"
            /\ UNCHANGED <<queue, sender_pc, appended, last, inserts>>
       ELSE LET st == insert_asdus([queue |-> queue, sender_pc |-> sender_pc,
                                    appended |-> appended, last |-> last,
                                    inserts |-> inserts],
                                   sv_message.val.asdus, timestamp_s, timestamp_ns)
            IN  /\ dec_pc' = "idle"
                /\ queue' = st.queue
                /\ sender_pc' = st.sender_pc
                /\ appended' = st.appended
                /\ last' = st.last
                /\ inserts' = st.inserts

\* one turn of the loop, recv having returned a frame
MainFrame ==
    /\ dec_pc = "idle"
    /\ frames < MaxFrames
    /\ mutex = "free"
    /\ \E bytes \in MainFrames, timestamp_s \in TimestampSecs,
          timestamp_ns \in TimestampNs :
          /\ dec_input' = bytes
          /\ MainLoopBody(timestamp_s, timestamp_ns, parse(bytes))
    /\ frames' = frames + 1
    /\ UNCHANGED <<mutex, done, popped, seen_head, setter_pc, emitted>>
    /\ UNCHANGED clock_vars

\* recv returns an error: the ? of line 246 returns it from main
MainRecvFailed ==
    /\ dec_pc = "idle"
    /\ frames < MaxFrames
    /\ dec_pc' = "recv_failed"
    /\ UNCHANGED <<dec_input, dec_result, frames>>
    /\ UNCHANGED queue_vars

MainNext == MainFrame \/ MainRecvFailed

SpecMain == Init /\ [][MainNext]_vars

(***************************************************************************)
(* The BER primitives run on their own (the unit tests of ber.rs): one     *)
(* call on one input, the identifier octet included where the function     *)
(* takes the encoding read from it.                                        *)
(***************************************************************************)
MaxIntLen == 4

IntBytes == {0, 1, 127, 128, 255}

IntContents == UNION {[1..k -> IntBytes] : k \in 0..MaxIntLen}

\* the identifiers of an INTEGER: Universal 2, primitive (02) and constructed (22)
IntIdentifiers == {2, 34}

\* read_identifier, then read_integer_as_u16 with the encoding it returned
identifier_then_integer(id) ==
    IF IsOk(id) THEN read_integer_as_u16(id.rest, id.val.encoding) ELSE id

ReadInteger ==
    /\ dec_pc = "idle"
    /\ \E id \in IntIdentifiers, c \in IntContents :
          /\ dec_input' = <<id, Len(c)>> \o c
          /\ dec_result' = identifier_then_integer(read_identifier(dec_input'))
    /\ dec_pc' = "integer_read"
    /\ frames' = frames + 1
    /\ UNCHANGED queue_vars

SpecInteger == Init /\ [][ReadInteger]_vars

\* length octets: a first octet, then zero bytes, then the first bytes of a
\* pattern without zero bytes
LengthFirstOctets == {0, 1, 127, 128, 129, 130, 136, 137, 138, 144, 255}

LengthZeros == {0, 1, 2, 3, 7, 8, 9}

LengthPatterns ==
    {<<18, 52, 86, 120, 154, 188, 222, 240, 1, 2, 3, 4>>,
     <<255, 255, 255, 255, 255, 255, 255, 255, 255, 255, 255, 255>>}

MaxLengthTail == 10

LengthFollowing ==
    {[i \in 1..z |-> 0] \o SubSeq(p, 1, m) :
        z \in LengthZeros, p \in LengthPatterns, m \in 0..MaxLengthTail}

ReadLength ==
    /\ dec_pc = "idle"
    /\ \E first \in LengthFirstOctets, following \in LengthFollowing :
          /\ dec_input' = <<first>> \o following
          /\ dec_result' = read_length_usize(dec_input')
    /\ dec_pc' = "length_read"
    /\ frames' = frames + 1
    /\ UNCHANGED queue_vars

SpecLength == Init /\ [][ReadLength]_vars

\* identifier octets: a first octet, then groups of seven bits with the high
\* bit set, then a last octet with the high bit clear
IdentifierFirstOctets == {10, 31, 48, 95, 162, 191, 222, 255}

TagGroups == {0, 10, 15, 16, 127}

MaxTagGroups == 5

TagLastOctets == {0, 85, 127}

IdentifierFollowing ==
    {<<>>} \cup
    {[i \in 1..Len(g) |-> 128 + g[i]] \o <<l>> :
        g \in UNION {[1..k -> TagGroups] : k \in 0..MaxTagGroups}, l \in TagLastOctets}

ReadIdentifier ==
    /\ dec_pc = "idle"
    /\ \E first \in IdentifierFirstOctets, following \in IdentifierFollowing :
          /\ dec_input' = <<first>> \o following
          /\ dec_result' = read_identifier(dec_input')
    /\ dec_pc' = "identifier_read"
    /\ frames' = frames + 1
    /\ UNCHANGED queue_vars

SpecIdentifier == Init /\ [][ReadIdentifier]_vars

\* VisibleString inputs: the identifier 1A (primitive) or 3A (constructed), a
\* short or a long form length, the content, and bytes after it
MaxStrLen == 3

StrBytes == {31, 32, 65, 126, 127, 255}

StrContents == UNION {[1..k -> StrBytes] : k \in 0..MaxStrLen}

StrIdentifiers == {26, 58}

StrTrailing == {<<>>, <<7>>}

StrLengthOctets(c) == {<<Len(c)>>, <<129, Len(c)>>}

\* read_identifier, then read_visiblestring with the encoding it returned
identifier_then_visiblestring(id) ==
    IF IsOk(id) THEN read_visiblestring(id.rest, id.val.encoding) ELSE id

ReadVisibleString ==
    /\ dec_pc = "idle"
    /\ \E id \in StrIdentifiers, c \in StrContents, t \in StrTrailing :
          \E l \in StrLengthOctets(c) :
              /\ dec_input' = <<id>> \o l \o c \o t
              /\ dec_result' = identifier_then_visiblestring(read_identifier(dec_input'))
    /\ dec_pc' = "string_read"
    /\ frames' = frames + 1
    /\ UNCHANGED queue_vars

SpecVisibleString == Init /\ [][ReadVisibleString]_vars

\* inputs of read_optional_identifier: nothing, or a first octet followed by
\* continuation groups with or without a last octet, and the tag asked for
MaxOptGroups == 2

OptGroups == UNION {[1..k -> TagGroups] : k \in 0..MaxOptGroups}

OptFollowing ==
    {[i \in 1..Len(g) |-> 128 + g[i]] \o l :
        g \in OptGroups, l \in {<<>>} \cup {<<o>> : o \in TagLastOctets}}
    \cup {<<255, 255, 255, 255, 255, 127>>}

OptInputs ==
    {<<>>} \cup {<<first>> \o f : first \in IdentifierFirstOctets, f \in OptFollowing}

OptTags ==
    {Tag("Universal", 10), Tag("Universal", 16), Tag("ContextSpecific", 2),
     Tag("ContextSpecific", 85), Tag("ContextSpecific", 1365)}

ReadOptionalIdentifier ==
    /\ dec_pc = "idle"
    /\ \E bytes \in OptInputs, tag \in OptTags :
          /\ dec_input' = bytes
          /\ dec_result' = [tag |-> tag,
                            result |-> read_optional_identifier(bytes, tag),
                            reader |-> read_optional_identifier_reader(bytes, tag)]
    /\ dec_pc' = "optional_read"
    /\ frames' = frames + 1
    /\ UNCHANGED queue_vars

SpecOptionalIdentifier == Init /\ [][ReadOptionalIdentifier]_vars

(***************************************************************************)
(* A BytesReader under a sequence of calls (the unit tests of bytes.rs):   *)
(* dec_input is self.bytes, dec_result the last call and what it returned. *)
(***************************************************************************)
MaxCalls == 3

MaxReadLen == 5

ReaderInputs == {<<>>, <<116>>, <<116, 101>>, <<116, 101, 115, 116>>}

ReaderOps ==
    {"read_bytes", "peek_bytes", "read_u8", "read_u16_be", "skip", "limit",
     "take_sub_reader", "peek_sub_reader"}

\* the call op(length) on the reader r; read_u8 and read_u16_be take no length
reader_call(op, r, length) ==
    CASE op = "read_bytes" -> read_bytes(r, length)
      [] op = "peek_bytes" -> peek_bytes(r, length)
      [] op = "read_u8" -> read_u8(r)
      [] op = "read_u16_be" -> read_u16_be(r)
      [] op = "skip" -> skip(r, length)
      [] op = "limit" -> limit(r, length)
      [] op = "take_sub_reader" -> take_sub_reader(r, length)
      [] op = "peek_sub_reader" -> peek_sub_reader(r, length)

\* BytesReader::new(bytes)
ReaderNew ==
    /\ dec_pc = "idle"
    /\ \E bytes \in ReaderInputs : dec_input' = bytes
    /\ dec_pc' = "reader"
    /\ UNCHANGED <<dec_result, frames>>
    /\ UNCHANGED queue_vars

ReaderCall ==
    /\ dec_pc = "reader"
    /\ frames < MaxCalls
    /\ \E op \in ReaderOps, length \in 0..MaxReadLen :
          LET result == reader_call(op, dec_input, length)
          IN  /\ dec_result' = [op |-> op, length |-> length, before |-> dec_input,
                                result |-> result]
              /\ dec_input' = self_bytes(dec_input, result)
    /\ frames' = frames + 1
    /\ UNCHANGED dec_pc
    /\ UNCHANGED queue_vars

ReaderNext == ReaderNew \/ ReaderCall

SpecReader == Init /\ [][ReaderNext]_vars

\* the reader's calls, or the decoder on one frame
SubViewNext == ReaderNext \/ ParseFrame

SpecSubViews == Init /\ [][SubViewNext]_vars

(***************************************************************************)
(* to_date_time on the start time of a buffer; only the day number         *)
(* self.0 / (86400 * sample_rate) enters the date.                         *)
(***************************************************************************)
MaxDay == 19000

ToDateTime ==
    /\ dec_pc = "idle"
    /\ \E days \in 0..MaxDay, overflow_checks \in BOOLEAN :
          /\ dec_input' = <<days>>
          /\ dec_result' = to_date(overflow_checks, days)
    /\ dec_pc' = "date_converted"
    /\ frames' = frames + 1
    /\ UNCHANGED queue_vars

SpecDate == Init /\ [][ToDateTime]_vars

(***************************************************************************)
(* SampleBuffer::insert_sample called on a buffer of its own, with sample  *)
(* counters on both sides of the buffer's window.                          *)
(***************************************************************************)
\* line 184: smp_cnt - self.start_time.subsec_samples(self.sample_rate) is a
\* plain u32 subtraction, which panics in a build with overflow checks and
\* wraps in a build without
SampleBuffer_insert_sample_build(overflow_checks, buf, smp_cnt, sample) ==
    IF overflow_checks /\ smp_cnt < subsec_samples(buf.start_time, buf.sample_rate)
    THEN Panic("attempt to subtract with overflow")
    ELSE Ok(SampleBuffer_insert_sample(buf, smp_cnt, sample), <<>>)

BufferStarts == {8000, 8040, 11960}

BufferSmpCnts == {0, 1, 39, 40, 41, 79, 80, 3959, 3960, 3999, 4000, 65535, 2147483647}

\* a new buffer, and one that holds a sample already
BufferStates ==
    {SampleBuffer_new(1, Rate, start, Length) : start \in BufferStarts} \cup
    {SampleBuffer_insert_sample(SampleBuffer_new(1, Rate, start, Length),
                                subsec_samples(start, Rate) + 1, SampleB) :
        start \in BufferStarts}

InsertIntoBuffer ==
    /\ dec_pc = "idle"
    /\ \E buf \in BufferStates, smp_cnt \in BufferSmpCnts, stamp \in Stamps,
          overflow_checks \in BOOLEAN :
          /\ dec_input' = [buffer |-> buf, smp_cnt |-> smp_cnt, sample |-> stamp.sample]
          /\ dec_result' = SampleBuffer_insert_sample_build(overflow_checks, buf,
                                                            smp_cnt, stamp.sample)
    /\ dec_pc' = "buffer_inserted"
    /\ frames' = frames + 1
    /\ UNCHANGED queue_vars

SpecBuffer == Init /\ [][InsertIntoBuffer]_vars

(***************************************************************************)
(* The two window predicates of a SampleBuffer on their own, with          *)
(* timestamps before, inside and after the window.                         *)
(***************************************************************************)
TimespanStarts == {0, 40, 8000, 8040}

TimespanLengths == {1, 40}

TimespanStamps == (0..120) \cup (7990..8090)

TestTimespan ==
    /\ dec_pc = "idle"
    /\ \E start \in TimespanStarts, length \in TimespanLengths,
          timestamp \in TimespanStamps :
          LET buf == SampleBuffer_new(1, Rate, start, length)
          IN  /\ dec_input' = [start_time |-> start, length |-> length,
                                timestamp |-> timestamp]
              /\ dec_result' = [within |-> is_sample_within_timespan(buf, timestamp),
                                 after  |-> is_sample_after_timespan(buf, timestamp)]
    /\ dec_pc' = "timespan_tested"
    /\ frames' = frames + 1
    /\ UNCHANGED queue_vars

SpecTimespan == Init /\ [][TestTimespan]_vars

(***************************************************************************)
(* insert_sample with receive times at the epoch.  recv_time_s is a u64:   *)
(* the correction of line 303, recv_time_s -= 1, on recv_time_s = 0 panics *)
(* in a build with overflow checks and wraps to 2^64 - 1 in a build        *)
(* without; the call is not followed further in either case.               *)
(***************************************************************************)
EpochSecs == {0, 1}

EpochSmpCnts == {0, 39, 40, 3999, 4000, 65535}

\* line 302 holds and recv_time_s is 0
correction_underflows(recv_time_s, recv_time_ns, smp_cnt, sample_rate) ==
    /\ recv_time_s = 0
    /\ ns_offset_reaches(smp_cnt, sample_rate, recv_time_ns)

CorrectionUnderflow(recv_time_s, recv_time_ns, smp_cnt, sample) ==
    /\ inserts < MaxInserts
    /\ \E overflow_checks \in BOOLEAN :
          dec_pc' = IF overflow_checks THEN "panicked" ELSE "wrapped"
    /\ last' = [recv_time_s |-> recv_time_s, recv_time_ns |-> recv_time_ns,
                smp_cnt |-> smp_cnt, timestamp |-> 0, sample |-> sample,
                branch |-> "underflow", notify |-> FALSE]
    /\ inserts' = inserts + 1
    /\ UNCHANGED <<queue, mutex, done, sender_pc, popped, seen_head, setter_pc,
                   emitted, appended>>
    /\ UNCHANGED <<dec_input, dec_result, frames>>
    /\ UNCHANGED clock_vars

InsertAtEpoch ==
    /\ dec_pc = "idle"
    /\ \E recv_time_s \in EpochSecs, stamp \in Stamps, smp_cnt \in EpochSmpCnts :
          IF correction_underflows(recv_time_s, stamp.recv_time_ns, smp_cnt, Rate)
          THEN CorrectionUnderflow(recv_time_s, stamp.recv_time_ns, smp_cnt, stamp.sample)
          ELSE InsertSample(recv_time_s, stamp.recv_time_ns, smp_cnt, stamp.sample)

SpecEpoch == Init /\ [][InsertAtEpoch]_vars

(***************************************************************************)
(* Properties of the queue and of dispatch                                 *)
(***************************************************************************)
\* an insert_sample call is the step that raises inserts
IsInsertStep == inserts' = inserts + 1

\* C1: the buffers emitted by the sender have ascending start_time: no emitted
\* buffer has a start_time lower than that of a buffer emitted before it.
C1_EmittedAscending ==
    \A i, j \in 1..Len(emitted) :
        i < j => emitted[i].start_time <= emitted[j].start_time

\* C2: the scheduler never skips a buffer: the buffers emitted so far are a
\* prefix of the buffers appended so far, same buffers in the same order.
C2_EmittedPrefixOfAppended ==
    /\ Len(emitted) <= Len(appended)
    /\ \A i \in 1..Len(emitted) :
          /\ emitted[i].id = appended[i].id
          /\ emitted[i].start_time = appended[i].start_time

C2_Witness ==
    /\ Len(emitted) >= 2
    /\ Len(appended) > Len(emitted)
    /\ queue # <<>>

\* C5: queue monotonicity: front to back the start_time values are strictly
\* ascending, the windows [start_time, start_time + length) of adjacent
\* buffers do not overlap, and the back buffer is the newest one appended.
C5_QueueMonotone ==
    /\ \A i \in 1..(Len(queue) - 1) :
          /\ queue[i].start_time < queue[i + 1].start_time
          /\ add_samples(queue[i].start_time, queue[i].length) <= queue[i + 1].start_time
    /\ queue # <<>> =>
          /\ queue[Len(queue)].id = Len(appended)
          /\ \A i \in 1..Len(queue) : queue[i].start_time <= queue[Len(queue)].start_time

C5_Witness ==
    /\ Len(queue) >= 3
    /\ emitted = <<>>

\* C6: window alignment: every buffer placed in the queue by insert_sample, for
\* every 16-bit smp_cnt, has start_time.subsec_samples(rate) mod length = 0.
C6_WindowAligned ==
    \A i \in 1..Len(queue) :
        subsec_samples(queue[i].start_time, queue[i].sample_rate) % queue[i].length = 0

\* a buffer created by a counter above the rate that is no multiple of length
C6_Witness ==
    /\ Len(queue) = 1
    /\ last.branch = "append"
    /\ last.smp_cnt > Rate
    /\ last.smp_cnt % Length # 0

\* C9 as stated: a sample whose smp_cnt exceeds start_time.subsec_samples +
\* length - 1 for every buffer in the queue is dropped and leaves the queue
\* (number of buffers, start times, channel contents) unchanged.
ExceedsEveryWindow(q, smp_cnt) ==
    \A i \in 1..Len(q) :
        smp_cnt > subsec_samples(q[i].start_time, q[i].sample_rate) + q[i].length - 1

C9_Original ==
    [][(IsInsertStep /\ queue # <<>> /\ ExceedsEveryWindow(queue, last'.smp_cnt))
          => queue' = queue]_vars

\* C9 as amended: such a sample is written into none of the buffers in the
\* queue: every buffer that was in the queue keeps its place, start_time and
\* channel contents; at most one new buffer is appended behind them.
C9_ExistingBuffersUnchanged ==
    [][(IsInsertStep /\ ExceedsEveryWindow(queue, last'.smp_cnt))
          => /\ Len(queue') \in {Len(queue), Len(queue) + 1}
             /\ \A i \in 1..Len(queue) : queue'[i] = queue[i]]_vars

\* an insert_sample call found the window of its timestamp in the queue and the
\* counter was beyond that window (a counter at or above the rate)
C9_Witness ==
    /\ last.branch = "inplace"
    /\ last.smp_cnt >= Rate
    /\ Len(queue) >= 2

\* the sample is stored in buf at the index of smp_cnt
Written(buf, smp_cnt, sample) ==
    LET index == SampleBuffer_index(buf, smp_cnt)
    IN  /\ index < buf.length
        /\ \A c \in 1..8 : buf.channels[c].buffer[index + 1] = sample[c]

\* buf2 is buf with at most the slot of smp_cnt changed
OnlySlotChanged(buf, buf2, smp_cnt) ==
    LET index == SampleBuffer_index(buf, smp_cnt)
    IN  /\ buf2.id = buf.id
        /\ buf2.start_time = buf.start_time
        /\ buf2.length = buf.length
        /\ buf2.sample_rate = buf.sample_rate
        /\ \A c \in 1..8 : \A i \in 1..buf.length :
              i # index + 1 => buf2.channels[c].buffer[i] = buf.channels[c].buffer[i]

Containing(q, timestamp) ==
    {i \in 1..Len(q) : q[i].start_time <= timestamp
                          /\ timestamp < q[i].start_time + q[i].length}

NotAfterNewest(q, timestamp) ==
    /\ q # <<>>
    /\ timestamp < q[Len(q)].start_time + q[Len(q)].length

C3_AppendedEventuallyEmitted ==
    \A n \in 1..MaxInserts :
        (Len(appended) >= n) ~> (Len(emitted) >= n \/ done \/ sender_pc = "panicked")

\* appended while the sender was parked on the empty queue, and emitted
C3_Witness ==
    /\ ~done
    /\ Len(emitted) >= 2
    /\ Len(emitted) = Len(appended)
    /\ sender_pc = "parked"

\* C4: once set_done has stored the flag, the sender eventually leaves its loop.
C4_ShutdownObserved ==
    done ~> (sender_pc \in {"exited", "panicked"})

\* the variants of DecodeError; ReadError holds EndOfBuffer
DecodeErrors ==
    {"UnexpectedTag", "TagOutOfRange", "IndefiniteLength", "ReservedLength",
     "LengthOutOfRange", "InvalidIntegerEncoding", "IntegerOutOfRange",
     "ConstructedString", "InvalidVisibleString", "EndOfBuffer"}

\* C7: whatever bytes parse is given, it returns: either a message with at
\* least one ASDU, each with its eight readings, or one of the decode errors;
\* no step of it panics.
C7_DecoderTotal ==
    dec_pc = "parsed" =>
        /\ dec_result.kind \in {"ok", "err"}
        /\ dec_result.kind = "err" => dec_result.err \in DecodeErrors
        /\ dec_result.kind = "ok" =>
              /\ Len(dec_result.val.asdus) >= 1
              /\ \A i \in 1..Len(dec_result.val.asdus) :
                    DOMAIN dec_result.val.asdus[i].sample = 1..8

\* a frame whose length field is below 8, the case of length - 8, is refused
C7_Witness ==
    /\ dec_pc = "parsed"
    /\ Len(dec_input) > 8
    /\ dec_input[3] * 256 + dec_input[4] < 8
    /\ dec_result.kind = "err"
    /\ dec_result.err = "LengthOutOfRange"

\* C8: a frame that parse refuses is dropped: the turn of the capture loop that
\* received it ends at the head of the loop, ready for the next frame, with the
\* queue as it was.
C8_DecodeFailureNotFatal ==
    [][(frames' = frames + 1 /\ ~IsOk(dec_result'))
          => (dec_pc' = "idle" /\ queue' = queue)]_vars

\* the receive time of the last call did not trigger the correction of the second
NoCorrection(l) == l.timestamp = l.recv_time_s * Rate + l.smp_cnt

\* C11: with no correction of the second, a sample whose timestamp lies in the
\* newest buffer's window is stored in that buffer and the queue keeps its
\* length; a sample at or past the end of the newest window, or on the empty
\* queue, appends exactly one buffer, which starts at
\* recv_s * rate + floor(smp_cnt / length) * length.
C11_WindowCreation ==
    [][(IsInsertStep /\ NoCorrection(last'))
          => IF queue # <<>> /\ is_sample_within_timespan(queue[Len(queue)], last'.timestamp)
             THEN /\ Len(queue') = Len(queue)
                  /\ \A i \in 1..(Len(queue) - 1) : queue'[i] = queue[i]
                  /\ Written(queue'[Len(queue)], last'.smp_cnt, last'.sample)
                  /\ OnlySlotChanged(queue[Len(queue)], queue'[Len(queue)], last'.smp_cnt)
             ELSE (queue = <<>> \/ last'.timestamp >=
                       queue[Len(queue)].start_time + queue[Len(queue)].length)
                  => /\ Len(queue') = Len(queue) + 1
                     /\ \A i \in 1..Len(queue) : queue'[i] = queue[i]
                     /\ queue'[Len(queue')].start_time =
                            last'.recv_time_s * Rate
                                + (last'.smp_cnt \div Length) * Length
                     /\ Written(queue'[Len(queue')], last'.smp_cnt, last'.sample)]_vars

\* counters 0 and 39 of second 2 share the buffer starting at 2 * 4000, and
\* counter 40 has created the buffer starting at 2 * 4000 + 40
C11_Witness ==
    /\ Len(queue) = 2
    /\ queue[1].start_time = 2 * Rate
    /\ queue[1].channels[1].buffer[1] # 0
    /\ queue[1].channels[1].buffer[40] # 0
    /\ queue[2].start_time = 2 * Rate + 40
    /\ last.smp_cnt = 40
    /\ last.branch = "append"
    /\ NoCorrection(last)

\* smp_cnt * 1e9 / rate >= recv_ns, both sides divided by 1000 (the rate
\* divides 10^6, and the left side is then a whole number)
OffsetReachesReceiveTime(l) ==
    l.smp_cnt * (NS_PER_SEC \div (1000 * Rate)) >= (l.recv_time_ns + 999) \div 1000

\* C12: insert_sample takes the second before recv_s exactly when
\* smp_cnt * 1e9 / rate >= recv_ns, and recv_s otherwise, and the timestamp is
\* that second * rate + smp_cnt.
C12_SecondCorrection ==
    last.branch # "none" =>
        last.timestamp =
            (IF OffsetReachesReceiveTime(last) THEN last.recv_time_s - 1
             ELSE last.recv_time_s) * Rate + last.smp_cnt

\* rate 4000, smp_cnt 3999, recv_ns 1000, recv_s 100: the second is 99
C12_Witness ==
    /\ last.branch = "append"
    /\ last.recv_time_s = 100
    /\ last.recv_time_ns = 1000
    /\ last.smp_cnt = 3999
    /\ last.timestamp = 99 * 4000 + 3999

\* no value stored in the channel exceeds its max in absolute value
ChannelBound(ch) == \A i \in DOMAIN ch.buffer : Abs(ch.buffer[i]) <= ch.max

\* the largest absolute value stored in the channel
LargestStored(ch) ==
    CHOOSE v \in {Abs(ch.buffer[i]) : i \in DOMAIN ch.buffer} :
        \A i \in DOMAIN ch.buffer : Abs(ch.buffer[i]) <= v

\* C13: after any sequence of insert_sample calls on a channel, repeated
\* writes to one index included, max >= |buffer[i]| for every index i, and max
\* never decreases.
C13_ChannelMaxBound ==
    [][\A i \in 1..Len(queue') : \A c \in 1..8 :
          /\ ChannelBound(queue'[i].channels[c])
          /\ \A j \in 1..Len(queue) :
                queue[j].id = queue'[i].id
                    => queue'[i].channels[c].max >= queue[j].channels[c].max]_vars

\* an index of a channel was written a second time, with a smaller value
C13_Witness ==
    \E i \in 1..Len(queue) :
        /\ queue[i].channels[1].buffer[1] # 0
        /\ Abs(queue[i].channels[1].buffer[1]) < queue[i].channels[1].max
        /\ \A k \in 2..Length : queue[i].channels[1].buffer[k] = 0

\* C14: after any sequence of insert_sample calls on a channel, max is the
\* largest absolute value stored in the channel buffer.
C14_MaxIsLargestStored ==
    \A i \in 1..Len(queue) : \A c \in 1..8 :
        queue[i].channels[c].max = LargestStored(queue[i].channels[c])

\* C15: an ASDU whose context tags 0..8 are not in strictly ascending order is
\* never accepted: read_asdu, and so parse, fails with UnexpectedTag.
C15_DisorderRefused ==
    (dec_pc = "parsed" /\ dec_input \in DisorderedFrames)
        => (dec_result.kind = "err" /\ dec_result.err = "UnexpectedTag")

\* C16: noASDU = 0 is refused with TagOutOfRange; a successful parse returns
\* exactly noASDU ASDUs, at least one, in wire order; a [2] body with fewer
\* complete ASDUs than noASDU makes the parse fail.
C16_AsduCount ==
    dec_pc = "parsed" =>
        /\ dec_result.kind = "ok" => Len(dec_result.val.asdus) >= 1
        /\ \A n \in 0..MaxAsdus, cnts \in CountSeqs :
              dec_input = FrameCount(n, cnts) =>
                  /\ n = 0 => (dec_result.kind = "err" /\ dec_result.err = "TagOutOfRange")
                  /\ Len(cnts) < n => dec_result.kind = "err"
                  /\ dec_result.kind = "ok" =>
                        /\ Len(dec_result.val.asdus) = n
                        /\ Len(cnts) >= n
                        /\ \A i \in 1..n : dec_result.val.asdus[i].smp_cnt = cnts[i]

C16_Witness ==
    /\ dec_pc = "parsed"
    /\ dec_input = FrameCount(2, <<40, 0>>)
    /\ dec_result.kind = "ok"
    /\ Len(dec_result.val.asdus) = 2
    /\ dec_result.val.asdus[1].smp_cnt = 40
    /\ dec_result.val.asdus[2].smp_cnt = 0

(***************************************************************************)
(* Properties of the BER primitives                                        *)
(***************************************************************************)
\* the unsigned big-endian value of up to three bytes
RECURSIVE Unsigned(_)
Unsigned(b) ==
    IF b = <<>> THEN 0 ELSE Unsigned(SubSeq(b, 1, Len(b) - 1)) * 256 + b[Len(b)]

\* the minimal two's-complement encoding of v in 0..65535
MinimalEncoding(v) ==
    IF v < 128 THEN <<v>>
    ELSE IF v < 32768 THEN <<v \div 256, v % 256>>
    ELSE <<0, v \div 256, v % 256>>

IsMinimalU16(b) ==
    /\ Len(b) \in 1..3
    /\ Unsigned(b) <= 65535
    /\ MinimalEncoding(Unsigned(b)) = b

\* the first nine bits are all equal
Overlong(b) ==
    Len(b) >= 2 /\ ((b[1] = 0 /\ b[2] < 128) \/ (b[1] = 255 /\ b[2] >= 128))

IntContent == SubSeq(dec_input, 3, Len(dec_input))

IntConstructed == dec_input[1] = 34

\* C17: read_integer_as_u16 returns the value exactly for the minimal
\* two's-complement encodings of 0..65535 under a primitive identifier;
\* InvalidIntegerEncoding for a constructed identifier, empty content and
\* overlong content; IntegerOutOfRange for the rest, which are the negative
\* values and the values above 65535.
C17_IntegerAsU16 ==
    dec_pc = "integer_read" =>
        /\ dec_result.kind \in {"ok", "err"}
        /\ dec_result.kind = "ok" <=> (~IntConstructed /\ IsMinimalU16(IntContent))
        /\ dec_result.kind = "ok" =>
              (dec_result.val = Unsigned(IntContent) /\ dec_result.rest = <<>>)
        /\ dec_result.kind = "err" =>
              /\ dec_result.err \in {"InvalidIntegerEncoding", "IntegerOutOfRange"}
              /\ dec_result.err = "InvalidIntegerEncoding" <=>
                    (IntConstructed \/ IntContent = <<>> \/ Overlong(IntContent))
              /\ dec_result.err = "IntegerOutOfRange" =>
                    \/ IntContent[1] >= 128
                    \/ Len(IntContent) > 3
                    \/ (Len(IntContent) = 3 /\ IntContent[1] > 0)

C17_Witness ==
    /\ dec_pc = "integer_read"
    /\ dec_input = <<2, 3, 0, 128, 1>>
    /\ dec_result.kind = "ok"
    /\ dec_result.val = 32769

\* the octets after the first, and the number of them a long form announces
LengthOctets == Tail(dec_input)

LengthCount == dec_input[1] % 128

\* the big-endian value of b fits eight bytes
FitsUsize(b) == \A i \in 1..(Len(b) - 8) : b[i] = 0

\* the big-endian value of b as the eight bytes of a usize
AsUsize(b) == [i \in 1..8 |-> IF Len(b) - 8 + i >= 1 THEN b[Len(b) - 8 + i] ELSE 0]

\* C18: read_length yields a first octet 0..127 as the value, IndefiniteLength
\* for 0x80 and ReservedLength for 0xFF; for 0x81..0xFE it yields the
\* big-endian value of the following (octet & 0x7F) bytes, leading zero bytes
\* included, and LengthOutOfRange whenever that value does not fit a usize,
\* never a wrapped or truncated value.
C18_ReadLength ==
    dec_pc = "length_read" =>
        LET first == dec_input[1]
            bytes == SubSeq(LengthOctets, 1, LengthCount)
        IN  /\ first < 128 =>
                  dec_result = Ok(AsUsize(<<first>>), LengthOctets)
            /\ first = 128 => dec_result = Err("IndefiniteLength")
            /\ first = 255 => dec_result = Err("ReservedLength")
            /\ (first \in 129..254 /\ Len(LengthOctets) >= LengthCount) =>
                  IF FitsUsize(bytes)
                  THEN dec_result =
                           Ok(AsUsize(bytes),
                              SubSeq(LengthOctets, LengthCount + 1, Len(LengthOctets)))
                  ELSE dec_result = Err("LengthOutOfRange")
            /\ (first \in 129..254 /\ Len(LengthOctets) < LengthCount) =>
                  dec_result.kind = "err"

\* the example 89 00 12 34 56 78 9A BC DE F0
C18_Witness ==
    /\ dec_pc = "length_read"
    /\ dec_input = <<137, 0, 18, 52, 86, 120, 154, 188, 222, 240>>
    /\ dec_result = Ok(<<18, 52, 86, 120, 154, 188, 222, 240>>, <<>>)

\* bits 7-6 of the first octet
ClassOfBits(first) ==
    <<"Universal", "Application", "ContextSpecific", "Private">>[first \div 64 + 1]

\* bit 5 of the first octet
EncodingOfBit(first) == IF first % 64 >= 32 THEN "Constructed" ELSE "Primitive"

\* the position of the first octet of b with the high bit clear
LastOctet(b) ==
    CHOOSE i \in 1..Len(b) : b[i] < 128 /\ \A j \in 1..(i - 1) : b[j] >= 128

\* a number in base 128 without its leading zero digits
RECURSIVE StripZeros(_)
StripZeros(g) == IF g # <<>> /\ g[1] = 0 THEN StripZeros(Tail(g)) ELSE g

\* the base-128 digits of the u32 held as <<high 16 bits, low 16 bits>>
Groups32(num) ==
    <<num[1] \div 4096, (num[1] \div 32) % 128,
      (num[1] % 32) * 4 + num[2] \div 16384, (num[2] \div 128) % 128, num[2] % 128>>

\* a stripped base-128 number is below 2^32
Fits32(g) == Len(g) <= 4 \/ (Len(g) = 5 /\ g[1] < 16)

\* C19: read_identifier takes the class from bits 7-6 and the encoding from
\* bit 5 of the first octet; the tag number is bits 4-0, or for 31 the
\* base-128 value of the octets up to the first with the high bit clear; it
\* returns TagOutOfRange whenever that value exceeds 32 bits and never a
\* tag number other than the exact encoded value.
C19_ReadIdentifier ==
    (dec_pc = "identifier_read" /\ Len(dec_input) >= 2) =>
        LET first == dec_input[1]
            following == Tail(dec_input)
            last_octet == LastOctet(following)
            groups == StripZeros([i \in 1..last_octet |-> following[i] % 128])
        IN  IF first % 32 # 31
            THEN dec_result =
                     Ok([tag |-> [class |-> ClassOfBits(first), num |-> <<0, first % 32>>],
                         encoding |-> EncodingOfBit(first)], following)
            ELSE IF Fits32(groups)
            THEN /\ dec_result.kind = "ok"
                 /\ dec_result.val.tag.class = ClassOfBits(first)
                 /\ dec_result.val.encoding = EncodingOfBit(first)
                 /\ StripZeros(Groups32(dec_result.val.tag.num)) = groups
                 /\ dec_result.val.tag.num[1] \in 0..65535
                 /\ dec_result.val.tag.num[2] \in 0..65535
                 /\ dec_result.rest = SubSeq(following, last_octet + 1, Len(following))
            ELSE dec_result = Err("TagOutOfRange")

\* the largest tag number that fits: 1F 8F FF FF FF 7F is Universal(2^32 - 1)
C19_Witness ==
    /\ dec_pc = "identifier_read"
    /\ dec_input = <<31, 143, 255, 255, 255, 127>>
    /\ dec_result.kind = "ok"
    /\ dec_result.val.tag.num = <<65535, 65535>>

\* C20 as stated: read_identifier on BF 80 80 55 returns ContextSpecific(0x155),
\* Constructed; on 0A Universal(10), Primitive; on 1F 8A 55 Universal(0x555),
\* Primitive.
C20_Original ==
    dec_pc = "identifier_read" =>
        /\ dec_input = <<191, 128, 128, 85>> =>
              dec_result = Ok([tag |-> Tag("ContextSpecific", 341),
                               encoding |-> "Constructed"], <<>>)
        /\ dec_input = <<10>> =>
              dec_result = Ok([tag |-> Tag("Universal", 10),
                               encoding |-> "Primitive"], <<>>)
        /\ dec_input = <<31, 138, 85>> =>
              dec_result = Ok([tag |-> Tag("Universal", 1365),
                               encoding |-> "Primitive"], <<>>)

\* C20: read_identifier on BF 80 80 55 returns ContextSpecific(0x55),
\* Constructed (the groups 80 80 are leading zeros of the tag number); on 0A
\* Universal(10), Primitive; on 1F 8A 55 Universal(0x555), Primitive.
C20_IdentifierFixture ==
    dec_pc = "identifier_read" =>
        /\ dec_input = <<191, 128, 128, 85>> =>
              dec_result = Ok([tag |-> Tag("ContextSpecific", 85),
                               encoding |-> "Constructed"], <<>>)
        /\ dec_input = <<10>> =>
              dec_result = Ok([tag |-> Tag("Universal", 10),
                               encoding |-> "Primitive"], <<>>)
        /\ dec_input = <<31, 138, 85>> =>
              dec_result = Ok([tag |-> Tag("Universal", 1365),
                               encoding |-> "Primitive"], <<>>)

C20_Witness ==
    /\ dec_pc = "identifier_read"
    /\ dec_input = <<191, 128, 128, 85>>
    /\ dec_result.kind = "ok"
    /\ dec_result.val.tag = Tag("ContextSpecific", 85)
    /\ dec_result.val.encoding = "Constructed"

\* the number of length octets of the string read, and its content length
StrLengthSize == IF dec_input[2] = 129 THEN 2 ELSE 1

StrContentLen == IF dec_input[2] = 129 THEN dec_input[3] ELSE dec_input[2]

StrContent == SubSeq(dec_input, 2 + StrLengthSize, 1 + StrLengthSize + StrContentLen)

\* C21: read_visiblestring with primitive encoding returns the content bytes
\* iff each lies in 0x20..0x7E and InvalidVisibleString otherwise; with
\* constructed encoding it returns ConstructedString; on success the cursor
\* has advanced by the length octets plus the content length.
C21_VisibleString ==
    dec_pc = "string_read" =>
        IF dec_input[1] = 58 THEN dec_result = Err("ConstructedString")
        ELSE IF \A i \in 1..Len(StrContent) : StrContent[i] \in 32..126
        THEN /\ dec_result.kind = "ok"
             /\ dec_result.val = StrContent
             /\ Len(dec_result.rest) =
                    (Len(dec_input) - 1) - (StrLengthSize + StrContentLen)
             /\ dec_result.rest =
                    SubSeq(dec_input, 2 + StrLengthSize + StrContentLen, Len(dec_input))
        ELSE dec_result = Err("InvalidVisibleString")

C21_Witness ==
    /\ dec_pc = "string_read"
    /\ dec_input = <<26, 129, 3, 32, 65, 126, 7>>
    /\ dec_result = Ok(<<32, 65, 126>>, <<7>>)

\* the next identifier of the input is well formed and has the tag asked for
OptMatches ==
    /\ dec_input # <<>>
    /\ IsOk(read_identifier(dec_input))
    /\ read_identifier(dec_input).val.tag = dec_result.tag

\* C22: read_optional_identifier returns Some(encoding) with the cursor past
\* the identifier when the next identifier has the tag asked for; in every
\* other outcome (another tag, an empty reader, a malformed or truncated
\* identifier) the cursor is where it was before the call.
C22_OptionalIdentifierPeeks ==
    dec_pc = "optional_read" =>
        IF OptMatches
        THEN /\ dec_result.result =
                    Ok(<<read_identifier(dec_input).val.encoding>>,
                       read_identifier(dec_input).rest)
             /\ dec_result.reader = read_identifier(dec_input).rest
             /\ Len(dec_result.reader) < Len(dec_input)
        ELSE /\ dec_result.reader = dec_input
             /\ dec_input = <<>> => dec_result.result = Ok(<<>>, <<>>)
             /\ (dec_input # <<>> /\ IsOk(read_identifier(dec_input))) =>
                    dec_result.result = Ok(<<>>, dec_input)
             /\ (dec_input # <<>> /\ ~IsOk(read_identifier(dec_input))) =>
                    /\ dec_result.result.kind = "err"
                    /\ dec_result.result.err \in {"EndOfBuffer", "TagOutOfRange"}

\* a well-formed identifier with another tag was looked at and left in place
C22_Witness ==
    /\ dec_pc = "optional_read"
    /\ dec_input = <<191, 138, 85>>
    /\ dec_result.tag = Tag("ContextSpecific", 85)
    /\ dec_result.result = Ok(<<>>, <<191, 138, 85>>)
    /\ dec_result.reader = <<191, 138, 85>>

(***************************************************************************)
(* Properties of BytesReader                                               *)
(***************************************************************************)
\* the number of bytes the call c asks for
Requested(c) ==
    IF c.op = "read_u8" THEN 1 ELSE IF c.op = "read_u16_be" THEN 2 ELSE c.length

\* what the call c returns when it succeeds on the bytes b
Returned(c, b) ==
    CASE c.op \in {"read_bytes", "peek_bytes", "take_sub_reader", "peek_sub_reader"} ->
             SubSeq(b, 1, c.length)
      [] c.op = "read_u8" -> b[1]
      [] c.op = "read_u16_be" -> b[1] * 256 + b[2]
      [] OTHER -> <<>>

ReaderCalled == dec_pc = "reader" /\ dec_result # <<>>

\* a call fails, with EndOfBuffer, exactly when fewer bytes remain than it
\* asks for, and then the remaining view is what it was
FailsWhenShort ==
    ReaderCalled =>
        /\ dec_result.result.kind \in {"ok", "err"}
        /\ dec_result.result.kind = "err" <=>
              Len(dec_result.before) < Requested(dec_result)
        /\ dec_result.result.kind = "err" =>
              (dec_result.result.err = "EndOfBuffer" /\ dec_input = dec_result.before)

\* the call after a failed one sees the bytes the failed one saw, and succeeds
\* with those bytes when it asks for no more than remain
AfterFailure ==
    (ReaderCalled /\ dec_result.result.kind = "err" /\ frames' = frames + 1) =>
        /\ dec_result'.before = dec_result.before
        /\ Requested(dec_result') <= Len(dec_result.before) =>
              /\ dec_result'.result.kind = "ok"
              /\ dec_result'.result.val = Returned(dec_result', dec_result.before)

\* C23: every BytesReader call fails with EndOfBuffer exactly when fewer bytes
\* remain than requested; a failed call leaves the remaining view unchanged,
\* so a following call that asks for no more than remains succeeds and
\* returns the bytes it would have returned without the failed call.
C23_ReaderFailureFree == []FailsWhenShort /\ [][AfterFailure]_vars

\* read_bytes(5) has failed on the four bytes that remain
C23_Witness ==
    /\ ReaderCalled
    /\ dec_result.op = "read_bytes"
    /\ dec_result.length = 5
    /\ dec_result.before = <<116, 101, 115, 116>>
    /\ dec_result.result = Err("EndOfBuffer")
    /\ dec_input = <<116, 101, 115, 116>>

(***************************************************************************)
(* Properties of the frame header                                          *)
(***************************************************************************)
\* the 16-bit length field of the header
HeaderLength == dec_input[3] * 256 + dec_input[4]

\* C24: on an input of at least 8 bytes parse returns LengthOutOfRange when the
\* length field is below 8; for a length field L >= 8 it fails with
\* EndOfBuffer when the input holds fewer than L bytes, and otherwise decodes
\* the L - 8 bytes after the header and nothing beyond offset L: the result is
\* that of the first L bytes alone.
C24_HeaderLength ==
    (dec_pc = "parsed" /\ Len(dec_input) >= 8) =>
        /\ HeaderLength < 8 => dec_result = Err("LengthOutOfRange")
        /\ (HeaderLength >= 8 /\ Len(dec_input) < HeaderLength) =>
              dec_result = Err("EndOfBuffer")
        /\ (HeaderLength >= 8 /\ Len(dec_input) >= HeaderLength) =>
              dec_result = parse(SubSeq(dec_input, 1, HeaderLength))

\* a frame followed by nine bytes that its length field leaves out
C24_Witness ==
    /\ dec_pc = "parsed"
    /\ dec_input = FrameOne(40) \o SubSeq(Garbage, 1, 9)
    /\ HeaderLength = Len(dec_input) - 9
    /\ dec_result = parse(FrameOne(40))
    /\ dec_result.kind = "ok"

(***************************************************************************)
(* Properties of the date conversion                                       *)
(***************************************************************************)
DaysInMonth(year, month) ==
    IF month = 2 THEN (IF is_gregorian_leap_year(year) THEN 29 ELSE 28)
    ELSE IF month \in {4, 6, 9, 11} THEN 30 ELSE 31

\* C25: to_date_time returns the proleptic Gregorian year, month and day of
\* the day floor(v / (86400 * rate)) days after 1970-01-01: month in 1..12,
\* day in 1..days-in-month, and fixed_from_gregorian(year, month, day) =
\* fixed_from_gregorian(1970, 1, 1) + that number of days.
C25_DateConversion ==
    dec_pc = "date_converted" =>
        /\ dec_result.kind = "ok"
        /\ dec_result.month \in 1..12
        /\ dec_result.day \in 1..DaysInMonth(dec_result.year, dec_result.month)
        /\ fixed_from_gregorian(dec_result.year, dec_result.month, dec_result.day) =
              fixed_from_gregorian(1970, 1, 1) + dec_input[1]

(***************************************************************************)
(* Properties of the datagram                                              *)
(***************************************************************************)
\* the i16 whose big-endian bytes are hi, lo
I16(hi, lo) == IF hi >= 128 THEN hi * 256 + lo - 65536 ELSE hi * 256 + lo

\* the payload `bytes` is that of `channel`: 2 * length bytes, all zero when
\* max is 0, else every sample the truncated value / max * 32767, unsaturated
PayloadOf(channel, bytes) ==
    /\ Len(bytes) = 2 * Length
    /\ channel.max = 0 => \A i \in 1..Len(bytes) : bytes[i] = 0
    /\ channel.max # 0 =>
          \A j \in 1..Length :
              /\ I16(bytes[2 * j - 1], bytes[2 * j]) =
                    trunc_div(channel.buffer[j] * 32767, channel.max)
              /\ I16(bytes[2 * j - 1], bytes[2 * j]) \in -32767..32767

\* C26: for each channel of an emitted buffer the payload has 2 * length bytes;
\* they are all zero when max is 0, and otherwise each 16-bit big-endian
\* sample is value / max * 32767 truncated toward zero, within -32767..32767.
C26_PayloadScaling ==
    [][Len(emitted') > Len(emitted) =>
          \A k \in 1..6 :
              PayloadOf(emitted'[Len(emitted')].channels[FlushChannels[k]],
                        flush_payloads(emitted'[Len(emitted')])[k])]_vars

\* a buffer was emitted whose channel current_a holds 1 under a max of 4, and
\* whose channel current_n is all zero
C26_Witness ==
    \E i \in 1..Len(emitted) :
        /\ emitted[i].channels[1].max = 4
        /\ emitted[i].channels[1].buffer[1] = 1
        /\ flush_payloads(emitted[i])[4][1] = 31
        /\ flush_payloads(emitted[i])[4][2] = 255
        /\ emitted[i].channels[3].max = 3

\* C27: the sender never holds a popped buffer, and never emits one, while the
\* wall clock is earlier than the buffer's send time, the end of its timespan
\* plus 5 ms; and when the head's send time is not in the future as
\* wait_for_sample_buffer returns, the sender goes on to pop without sleeping.
SendTime(buf) == buf.start_time + Length + 20

NotBeforeSendTime ==
    /\ sender_pc = "flush" => now >= SendTime(popped[1])
    /\ sender_pc = "sleep" => (queue # <<>> /\ wake = SendTime(queue[1]))

Emits == Len(emitted') = Len(emitted) + 1

DispatchStep ==
    /\ Emits => now >= SendTime(emitted'[Len(emitted')])
    /\ sender_pc = "pop" /\ sender_pc' = "flush" => now >= SendTime(popped'[1])
    /\ sender_pc = "check_done" /\ sender_pc' # "check_done" /\ queue # <<>>
          /\ now >= SendTime(queue[1])
          => sender_pc' = "pop"

C27_DispatchDeadline == []NotBeforeSendTime /\ [][DispatchStep]_vars

C27_Witness ==
    /\ Len(emitted) = 2
    /\ now = SendTime(emitted[2])
    /\ seen_head = emitted[2].id
    /\ queue # <<>>

\* C28: when sending a popped buffer fails the sender thread terminates: the
\* step out of flush either emits the buffer or leaves the thread panicked with
\* the buffer neither in the queue nor emitted, and a panicked sender stays
\* panicked and emits nothing more, whatever insert_sample does afterwards.
QueueIds == {queue[i].id : i \in 1..Len(queue)}

EmittedIds == {emitted[i].id : i \in 1..Len(emitted)}

FlushStep == sender_pc = "flush" /\ sender_pc' # "flush"

SendFailed == FlushStep /\ emitted' = emitted

FatalSendFailure ==
    /\ FlushStep => \/ emitted' = Append(emitted, popped[1]) /\ sender_pc' = "lock"
                    \/ SendFailed
    /\ SendFailed => /\ sender_pc' = "panicked"
                     /\ popped[1].id \notin QueueIds
                     /\ popped[1].id \notin EmittedIds
                     /\ queue' = queue
                     /\ popped' = <<>>
    /\ sender_pc = "panicked" => sender_pc' = "panicked" /\ emitted' = emitted

C28_SendFailureFatal == [][FatalSendFailure]_vars

\* the sender has panicked with one buffer popped and not emitted, and the last
\* call of insert_sample appended a buffer that stays in the queue
C28_Witness ==
    /\ sender_pc = "panicked"
    /\ Len(appended) = Len(emitted) + Len(queue) + 1
    /\ queue # <<>>
    /\ last.branch = "append"
    /\ queue[Len(queue)].id = Len(appended)
    /\ inserts = MaxInserts

\* C29: insert_sample on a buffer never panics; a sample counter inside the
\* buffer's window puts the eight values at index smp_cnt - subsec_samples of
\* the eight channels, and a counter at or beyond the window's end, or below its
\* start, leaves every channel's buffer and max as they were.
WindowStart == subsec_samples(dec_input.buffer.start_time, dec_input.buffer.sample_rate)

InWindow ==
    /\ dec_input.smp_cnt >= WindowStart
    /\ dec_input.smp_cnt - WindowStart < dec_input.buffer.length

Received(c) ==
    LET before == dec_input.buffer.channels[c].buffer
        after  == dec_result.val.channels[c].buffer
        index  == dec_input.smp_cnt - WindowStart
    IN  /\ after[index + 1] = dec_input.sample[c]
        /\ \A i \in 1..Len(before) : i # index + 1 => after[i] = before[i]

C29_InsertSample ==
    dec_pc = "buffer_inserted" =>
        /\ dec_result.kind = "ok"
        /\ IF InWindow
           THEN \A c \in 1..8 : Received(c)
           ELSE dec_result.val = dec_input.buffer

\* C30: from the moment the sender has read the head's send time until it
\* pops, the buffer at the head of the queue is the one it read, whatever
\* insert_sample writes or appends in between, and the buffer popped is that
\* buffer.
BetweenReadAndPop == sender_pc \in {"sleep", "pop"}

HeadIsTheOneRead ==
    /\ BetweenReadAndPop => queue # <<>> /\ queue[1].id = seen_head
    /\ sender_pc = "flush" => popped[1].id = seen_head

ProducerKeepsHead ==
    BetweenReadAndPop /\ inserts' = inserts + 1 =>
        /\ queue'[1].id = queue[1].id
        /\ queue'[1].start_time = queue[1].start_time
        /\ Len(queue') >= Len(queue)
        /\ \A i \in 1..Len(queue) : queue'[i].id = queue[i].id

C30_HeadStability == []HeadIsTheOneRead /\ [][ProducerKeepsHead]_vars

\* the sender holds the buffer whose send time it read, while a newer buffer
\* waits in the queue and the last insert_sample call wrote into the buffer held
C30_Witness ==
    /\ sender_pc = "flush"
    /\ popped[1].id = seen_head
    /\ queue # <<>>
    /\ queue[1].id > seen_head
    /\ last.branch = "inplace"
    /\ is_sample_within_timespan(popped[1], last.timestamp)
    /\ popped[1].channels[1].buffer[1] = last.sample[1]

\* C31 as stated: a sample whose timestamp lies in the head buffer's window and
\* whose insert_sample call completes while the head is still in the queue is
\* stored in the head; the buffer the sender pops is the head as it is at the
\* pop, and the buffer emitted is the buffer popped.
InHeadWindow(q, timestamp) ==
    /\ q # <<>>
    /\ is_sample_within_timespan(q[1], timestamp)

PopStep == sender_pc = "pop" /\ sender_pc' = "flush"

NoEarlierSnapshot ==
    /\ PopStep => popped' = <<queue[1]>>
    /\ Len(emitted') = Len(emitted) + 1 => emitted'[Len(emitted')] = popped[1]

C32_WindowPartition ==
    dec_pc = "timespan_tested" =>
        LET start == dec_input.start_time
            end   == dec_input.start_time + dec_input.length
            ts    == dec_input.timestamp
        IN  /\ dec_result.within = (start <= ts /\ ts < end)
            /\ dec_result.after = (ts >= end)
            /\ ~(dec_result.within /\ dec_result.after)
            /\ (~dec_result.within /\ ~dec_result.after) = (ts < start)

\* the timestamp just at the end of the window: after it, not within it
C32_Witness ==
    /\ dec_pc = "timespan_tested"
    /\ dec_input.start_time = 8000
    /\ dec_input.length = 40
    /\ dec_input.timestamp = 8040
    /\ dec_result.after
    /\ ~dec_result.within

\* C33: a successful limit(N) leaves exactly the first N bytes; a successful
\* take_sub_reader(N) yields a reader over the first N bytes and leaves the
\* parent after them; a successful peek_sub_reader(N) yields the same reader and
\* leaves the parent where it was.  In the decoder, bytes that follow the end an
\* ASDU, the [2] sequence or the savPdu declares are not read (the frame decodes
\* as it does without them), and an element that declares fewer bytes than its
\* content takes fails with EndOfBuffer instead of reading on.
SubViewsBounded ==
    ReaderCalled /\ dec_result.result.kind = "ok" =>
        LET before == dec_result.before
            n      == dec_result.length
        IN  /\ dec_result.op = "limit" =>
                  (Len(dec_input) = n /\ dec_input = SubSeq(before, 1, n))
            /\ dec_result.op = "take_sub_reader" =>
                  /\ dec_result.result.val = SubSeq(before, 1, n)
                  /\ dec_input = SubSeq(before, n + 1, Len(before))
                  /\ Len(dec_input) = Len(before) - n
            /\ dec_result.op = "peek_sub_reader" =>
                  /\ dec_result.result.val = SubSeq(before, 1, n)
                  /\ dec_input = before

DecodingBounded ==
    dec_pc = "parsed" =>
        /\ dec_input \in SlackFrames =>
              /\ dec_result.kind = "ok"
              /\ dec_result.val = parse(FrameOne(40)).val
        /\ dec_input \in ClippedFrames => dec_result = Err("EndOfBuffer")

C33_BoundedSubViews == SubViewsBounded /\ DecodingBounded

\* a smpMod field follows the end the ASDU declares, inside the [2] sequence,
\* and the ASDU decoded has no smpMod
C33_Witness ==
    /\ dec_pc = "parsed"
    /\ dec_input = Frame(TLV(128, <<1>>) \o TLV(162, TLV(48, AsduPlain(40)) \o Slack(4)))
    /\ dec_result.kind = "ok"
    /\ Len(dec_result.val.asdus) = 1
    /\ dec_result.val.asdus[1].smp_mod = <<>>
    /\ dec_result.val.asdus[1].smp_cnt = 40

\* C34: with the single sender thread, the queue holds a buffer whenever
\* wait_for_sample_buffer reads the front and whenever pop_sample_buffer runs:
\* neither front().unwrap() nor pop_front().unwrap() panics.
FrontRead == sender_pc = "check_done" /\ sender_pc' # "check_done"

PopRuns == sender_pc = "pop" /\ sender_pc' # "pop"

UnwrapsSucceed ==
    /\ FrontRead /\ ~done => queue # <<>> /\ sender_pc' \in {"sleep", "pop"}
    /\ FrontRead /\ done => sender_pc' = "exited"
    /\ PopRuns => /\ queue # <<>>
                  /\ sender_pc' = "flush"
                  /\ popped' = <<queue[1]>>
                  /\ queue' = Tail(queue)

QueueHeldForPop ==
    /\ sender_pc \in {"sleep", "pop"} => queue # <<>>
    /\ sender_pc = "check_done" => (queue # <<>> \/ done)

C34_PopFindsBuffer == []QueueHeldForPop /\ [][UnwrapsSucceed]_vars

\* the sender has popped the only buffer of the queue, after emitting two
C34_Witness ==
    /\ sender_pc = "flush"
    /\ queue = <<>>
    /\ popped # <<>>
    /\ Len(emitted) = 2

\* C35: the sender holds the queue mutex only between taking it in
\* wait_for_sample_buffer and parking or returning (and inside
\* pop_sample_buffer, one step); never while it sleeps, renders or sends.
\* While it holds the mutex it can always take its next step, and it has
\* released the mutex after at most two steps, so insert_sample gets the lock
\* and the two threads do not deadlock.
HoldsMutex == mutex = "sender"

MutexOnlyInWait ==
    /\ HoldsMutex <=> sender_pc \in {"pred", "park", "check_done"}
    /\ HoldsMutex => ENABLED Sender
    /\ (~HoldsMutex /\ inserts < MaxInserts) => ENABLED Insert

SenderStep == sender_pc' # sender_pc

ReleasedWithinTwoSteps ==
    /\ (SenderStep /\ sender_pc = "pred") => sender_pc' \in {"park", "check_done"}
    /\ (SenderStep /\ sender_pc \in {"park", "check_done"}) => mutex' = "free"
    /\ (SenderStep /\ sender_pc \in {"sleep", "pop", "flush"}) => mutex' = "free"

C35_CaptureNotBlocked ==
    /\ []MutexOnlyInWait
    /\ [][ReleasedWithinTwoSteps]_vars
    /\ (HoldsMutex ~> ~HoldsMutex)

\* the sender sleeps for the first buffer with the mutex free while the
\* producer has appended two more
C35_Witness ==
    /\ sender_pc = "sleep"
    /\ mutex = "free"
    /\ seen_head = 1
    /\ Len(queue) = 3
    /\ last.branch = "append"

\* C36: each window is emitted at most once: no two emitted buffers have the
\* same start_time.
C36_WindowEmittedOnce ==
    \A i, j \in 1..Len(emitted) :
        i # j => emitted[i].start_time # emitted[j].start_time

\* C37: no subtraction of insert_sample goes below zero: the correction
\* recv_time_s - 1 is made only on recv_time_s >= 1, and the index
\* smp_cnt - start_time.subsec_samples(rate) is computed only on a counter that
\* is not below the subsec_samples of the buffer written, in the new-buffer
\* branch and in the in-place branch.
IndexOperandsOrdered ==
    /\ (IsInsertStep /\ last'.branch = "append") =>
          last'.smp_cnt >= subsec_samples(queue'[Len(queue')].start_time, Rate)
    /\ (IsInsertStep /\ last'.branch = "inplace") =>
          last'.smp_cnt >=
              subsec_samples(queue[find_buffer(queue, last'.timestamp)].start_time, Rate)

CorrectionAboveZero == last.branch # "underflow"

C37_NoUnderflow == []CorrectionAboveZero /\ [][IndexOperandsOrdered]_vars

IndexNeverUnderflows == [][IndexOperandsOrdered]_vars

\* C38: a buffer that insert_sample appends holds the sample that created it,
\* at index smp_cnt mod length, for every 16-bit smp_cnt.
C38_NewBufferHoldsSample ==
    [][(IsInsertStep /\ last'.branch = "append") =>
          LET new_buffer == queue'[Len(queue')]
          IN  \A c \in 1..8 :
                  new_buffer.channels[c].buffer[(last'.smp_cnt % Length) + 1]
                      = last'.sample[c]]_vars

\* C39: once done is stored the sender emits at most one more buffer, the one
\* it had read the send time of before it saw the flag; when it reads the flag
\* set it exits, whatever the queue holds, and emits nothing afterwards.
AtMostOneAfterDone ==
    \A n \in 0..MaxInserts :
        []((done /\ Len(emitted) = n) => [](Len(emitted) <= n + 1))

Uncommitted == {"lock", "pred", "park", "parked", "check_done", "exited", "panicked"}

ExitOnDone ==
    /\ (done /\ sender_pc = "check_done" /\ sender_pc' # "check_done") =>
          (sender_pc' = "exited" /\ queue' = queue /\ emitted' = emitted)
    /\ (done /\ sender_pc \in Uncommitted) =>
          (sender_pc' \in Uncommitted /\ emitted' = emitted)
    /\ sender_pc = "exited" => (sender_pc' = "exited" /\ emitted' = emitted)

C39_EmissionAfterShutdown == AtMostOneAfterDone /\ [][ExitOnDone]_vars

\* the sender has exited on the flag with two buffers left in the queue
C39_Witness ==
    /\ done
    /\ sender_pc = "exited"
    /\ Len(queue) = 2
    /\ Len(emitted) = 1

\* C40: no unsigned subtraction of to_date_time or fixed_from_gregorian goes
\* below zero: the conversion neither panics nor wraps, on any day.
C40_DateNeverUnderflows ==
    dec_pc = "date_converted" => dec_result.kind \notin {"panic", "wrapped"}

====
